---- MODULE Spec2Model ----
(***************************************************************************)
(* Image services of the Patina DXE core (patina_dxe_core/src/image.rs):   *)
(* LoadImage, StartImage, Exit and UnloadImage over the private image      *)
(* registry, the protocol database, the page allocator and the stack of    *)
(* start contexts (coroutine yielders).                                    *)
(*                                                                         *)
(* Control is a stack of frames of image code: an image's entry point      *)
(* running on the coroutine StartImage resumed, or an image's unload       *)
(* callback called by core_unload_image.  The empty stack is the caller    *)
(* outside all images (the DXE core's dispatcher).  One action is the core *)
(* code that runs from one transfer of control to the next.                *)
(***************************************************************************)
EXTENDS Integers, Sequences, FiniteSets, TLC

\* ------------------------------------------------------------------ bounds
MaxImages == 1      \* handles LoadImage may create
MaxDepth  == 1      \* frames of image code on the control stack

\* bits of a usize and of a u64, scaled down; a u32 has the bits of a usize
UsizeBits == 16
U64Bits   == 20

\* bytes of an efi::Guid and of a usize in the communicate header, scaled
\* down, and the longest message a communicate buffer holds
GuidSize   == 2
UsizeSize  == 2
MaxMessage == 2

\* the same, for the specification of nested StartImage calls
NestImages == MaxImages + 1
NestDepth  == MaxDepth + 1

\* ------------------------------------------------------- program constants
EFI_IMAGE_SUBSYSTEM_EFI_APPLICATION         == 10
EFI_IMAGE_SUBSYSTEM_EFI_BOOT_SERVICE_DRIVER == 11
EFI_IMAGE_SUBSYSTEM_EFI_RUNTIME_DRIVER      == 12
DXE_CORE_HANDLE == 0
ENTRY_POINT_STACK_SIZE == 1048576
\* corosensei's stack constants
MIN_STACK_SIZE  == 4096
STACK_ALIGNMENT == 16

ImageTypes == { EFI_IMAGE_SUBSYSTEM_EFI_APPLICATION,
                EFI_IMAGE_SUBSYSTEM_EFI_BOOT_SERVICE_DRIVER,
                EFI_IMAGE_SUBSYSTEM_EFI_RUNTIME_DRIVER }

Handles == DXE_CORE_HANDLE .. NestImages

\* efi::Status values the model distinguishes
SUCCESS           == "SUCCESS"
INVALID_PARAMETER == "INVALID_PARAMETER"
UNSUPPORTED       == "UNSUPPORTED"
LOAD_ERROR        == "LOAD_ERROR"
OUT_OF_RESOURCES  == "OUT_OF_RESOURCES"
NOT_FOUND         == "NOT_FOUND"
ACCESS_DENIED     == "ACCESS_DENIED"
ABORTED           == "ABORTED"
DEVICE_ERROR      == "DEVICE_ERROR"
BUFFER_TOO_SMALL  == "BUFFER_TOO_SMALL"

\* statuses an image hands to Exit or returns from its entry point
ImageStatuses  == { SUCCESS, ABORTED }
\* statuses an unload callback returns
UnloadStatuses == { SUCCESS, ACCESS_DENIED }

\* Option<T> as a set with at most one element
None    == {}
Some(x) == {x}

\* raw interface pointers
NullPtr         == [kind |-> "null", id |-> 0]
ImageInfoPtr(h) == [kind |-> "image_info", id |-> h]   \* the boxed loaded_image::Protocol of h
FilePathPtr(h)  == [kind |-> "file_path", id |-> h]    \* the caller's device path given to the load of h
PathCopyPtr(h)  == [kind |-> "path_copy", id |-> h]    \* the heap copy made of it
HiiPtr(h)       == [kind |-> "hii", id |-> h]          \* the HII resource section of h

LOADED_IMAGE             == "LoadedImage"
LOADED_IMAGE_DEVICE_PATH == "LoadedImageDevicePath"
HII_PACKAGE_LIST         == "HiiPackageList"
LOAD_FILE                == "LoadFile"
LOAD_FILE2               == "LoadFile2"

\* EFI memory types of the code and the data of an image
LOADER_CODE           == "LoaderCode"
LOADER_DATA           == "LoaderData"
BOOT_SERVICES_CODE    == "BootServicesCode"
BOOT_SERVICES_DATA    == "BootServicesData"
RUNTIME_SERVICES_CODE == "RuntimeServicesCode"
RUNTIME_SERVICES_DATA == "RuntimeServicesData"

UEFI_PAGE_SIZE == 4096

\* The access attributes of an image's page range in the GCD (every change
\* keeps the cache bits):
\*   ATTR_XP        XP on the whole range, as the allocator hands it out
\*   ATTR_SECTIONS  RO or XP section by section (apply_image_memory_protections)
\*   ATTR_CACHE     no access bit, the cache attributes only
ATTR_XP       == "XP"
ATTR_SECTIONS == "RO|XP per section"
ATTR_CACHE    == "cache only"

\* ------------------------------------------------------------------- state
VARIABLES
    private_image_data,     \* registry: handle -> PrivateImageData
    current_running_image,  \* Option<handle>
    image_start_contexts,   \* stack of yielders; a yielder is named by the handle whose StartImage pushed it
    protocols,              \* protocol database: set of [handle, guid, interface]
    pages,                  \* page ranges allocated and not freed: [kind, h]
    runtime_images,         \* handles registered with the runtime-relocation registry
    debug_image_info,       \* handles with a debug-image-info entry
    next_handle,            \* next handle the protocol database creates
    memory_attributes,      \* handle -> access attributes of the image pages allocated for it
    ebs_event,              \* the ExitBootServices event of init_image_support: "created" or "closed"
    frames,                 \* control stack of image code
    locked,                 \* PRIVATE_IMAGE_DATA is held
    transfers,              \* the transfers of control the last step made, each with the lock's state
    halt,                   \* "none", or why the machine stopped
    entry_calls,            \* handle -> number of times its entry point was called
    last_unload,            \* the core_unload_image call completed by the last step
    last_load,              \* what the core_load_image call of the last step did
    last_fixup,             \* what the ExitBootServices notification of the last step did
    ret,                    \* the image-service call completed by the last step
    image_stack,            \* Option<ImageStack>: an ImageStack that was made and not dropped
    stack_pages,            \* the pages allocated for it and the GCD attributes of the lowest one
    last_drop,              \* what the drop of an ImageStack in the last step did
    comm_buffer,            \* Option<CommunicateBuffer>: its memory and its private state
    last_comm               \* the CommunicateBuffer call of the last step, and the message set

image_vars == << private_image_data, current_running_image, image_start_contexts,
                 protocols, pages, runtime_images, debug_image_info, next_handle,
                 memory_attributes, ebs_event,
                 frames, locked, transfers, halt, entry_calls, last_unload, last_load,
                 last_fixup, ret >>

vars == << private_image_data, current_running_image, image_start_contexts,
           protocols, pages, runtime_images, debug_image_info, next_handle,
           memory_attributes, ebs_event,
           frames, locked, transfers, halt, entry_calls, last_unload, last_load,
           last_fixup, ret, image_stack, stack_pages, last_drop,
           comm_buffer, last_comm >>

\* ----------------------------------------------------------------- helpers
Insert(f, k, v) == [x \in (DOMAIN f) \cup {k} |-> IF x = k THEN v ELSE f[x]]
Remove(f, k)    == [x \in (DOMAIN f) \ {k} |-> f[x]]
Top(s)          == s[Len(s)]
Pop(s)          == SubSeq(s, 1, Len(s) - 1)

\* What a core_unload_image call found and did (read by the properties only):
\* its arguments, the record's started flag and unload callback when the call
\* read them, how often it called the callback, and its result.
NoUnload == [ op |-> "none", h |-> 0, force |-> FALSE, had_record |-> FALSE,
              started |-> FALSE, callback |-> FALSE, invoked |-> 0,
              result |-> [ ok |-> TRUE, err |-> "SUCCESS" ],
              steps |-> << >>, freed_attr |-> "none" ]

\* What a notification of the ExitBootServices event did (read by the
\* properties only): whether it returned, and the records for which
\* core_set_memory_space_attributes returned an error.
NoFixup == [ returned |-> FALSE, gcd_errors |-> {} ]

\* What a core_load_image call did to get and to authenticate the image
\* (read by the properties only): its arguments and the answers it got, the
\* sources it consulted in order, its calls of load-file protocols, the
\* source that gave the bytes, from_fv and authentication_status, its calls
\* of the security protocols, and whether authenticate_image returned; the
\* PE's subsystem and descriptor and whether it has a resource section;
\* the source bytes and the resource section reported in them; the
\* authentication status read_section reported, if it was called; a section's
\* characteristics, the attributes its range had and those written to it;
\* the pages PrivateImageData::new allocated (their number and address) and
\* the address of the image buffer in them;
\* the build's compatibility_mode_allowed and what the end of
\* core_load_pe_image did ("none": it was not reached; "denied" and
\* "activated": activate_compatibility_mode; "protected":
\* apply_image_memory_protections);
\* whether core_load_pe_image returned an error; the
\* steps it took after the PE was loaded, in order, and the attributes the
\* image pages had when they were freed ("none": they were not).
NoLoad == [ op |-> "none", out_null |-> FALSE, has_image |-> FALSE, size_zero |-> FALSE,
            path_null |-> FALSE, parent |-> 0, boot_policy |-> FALSE,
            type |-> 0, hii |-> FALSE,
            pe |-> [ parse_ok |-> TRUE, section_alignment |-> 0, size_of_image |-> 0,
                     nx_compat |-> TRUE ],
            device_path |-> [kind |-> "null", id |-> 0],
            src |-> [ fv |-> FALSE, sfs |-> FALSE, lf2 |-> "none", lf |-> "none" ],
            auth |-> [ security2 |-> "absent", security |-> "absent" ],
            consulted |-> << >>, load_file_calls |-> << >>,
            image |-> "none", from_fv |-> FALSE, authentication_status |-> 0,
            security_calls |-> << >>, authenticated |-> FALSE,
            security_status |-> "SUCCESS",
            layout |-> [ image |-> << >>, offset |-> 0, size |-> 0 ],
            read_section_status |-> 0,
            section |-> [ characteristics |-> {}, attributes |-> {} ], written |-> None,
            compat |-> FALSE, mode |-> "none",
            alloc |-> [ num_pages |-> 0, image_base_page |-> 0, image_buffer |-> 0 ],
            pe_failed |-> FALSE, steps |-> << >>, freed_attr |-> "none" ]

\* The state the core code works on, passed through the operators that model
\* its functions: each takes the state it is called in and gives the state it
\* leaves.
S == [ pid   |-> private_image_data,
       cur   |-> current_running_image,
       ctx   |-> image_start_contexts,
       prot  |-> protocols,
       pg    |-> pages,
       rt    |-> runtime_images,
       dbg   |-> debug_image_info,
       nh    |-> next_handle,
       attr  |-> memory_attributes,
       ebs   |-> ebs_event,
       fr    |-> frames,
       halt  |-> halt,
       calls |-> entry_calls,
       ul    |-> NoUnload,
       ld    |-> NoLoad,
       fx    |-> NoFixup ]

\* What a StartImage call found when it was made (kept with the call until it
\* returns; read by the properties only).
NoGhost == [ pre_cur |-> None, pre_ctx |-> << >>, was_loaded |-> FALSE,
             was_started |-> FALSE, stack_ok |-> FALSE, type |-> None,
             calls_before |-> 0, given |-> None,
             suspended_by |-> "none", exit_data |-> None, exit_returned |-> FALSE,
             out |-> None ]

NoRet == [ op |-> "none", h |-> DXE_CORE_HANDLE, status |-> SUCCESS, gh |-> NoGhost ]

Done(op, h, status, gh) == [ op |-> op, h |-> h, status |-> status, gh |-> gh ]

\* ------------------------------------------------- protocol database (external)
Triple(h, guid, ptr) == [ handle |-> h, guid |-> guid, interface |-> ptr ]

validate_handle(prot, h) == \E p \in prot : p.handle = h

get_interface_for_handle(prot, h, guid) ==
    { p.interface : p \in { q \in prot : q.handle = h /\ q.guid = guid } }

core_install_protocol_interface(prot, h, guid, ptr) == prot \cup { Triple(h, guid, ptr) }

\* Uninstalling needs the interface pointer that was installed; with another
\* pointer nothing is removed (the call's error is ignored by its callers).
core_uninstall_protocol_interface(prot, h, guid, ptr) == prot \ { Triple(h, guid, ptr) }

\* --------------------------------------------------------- PrivateImageData
ImagePages(h) == [ kind |-> "image", h |-> h ]
HiiPages(h)   == [ kind |-> "hii", h |-> h ]
StackPages(h) == [ kind |-> "stack", h |-> h ]

\* impl Drop for PrivateImageData: the image pages and the HII pages are freed
DropPrivateImageData(pg, h, rec) ==
    (pg \ { ImagePages(h) }) \ (IF rec.hii THEN { HiiPages(h) } ELSE {})

\* the interface installed for LoadedImageDevicePath: null, or a heap copy of the path
InstalledDevicePathPtr(h, path_null) == IF path_null THEN NullPtr ELSE PathCopyPtr(h)

\* the pointer stored in image_device_path_ptr: file_path itself
StoredDevicePathPtr(h, path_null) == IF path_null THEN NullPtr ELSE FilePathPtr(h)

\* the fields of image_info that core_load_pe_image sets
ImageInfo(image_size, image_code_type, image_data_type) ==
    [ image_size |-> image_size, image_code_type |-> image_code_type,
      image_data_type |-> image_data_type ]

\* PrivateImageData::new, as completed by core_load_pe_image and core_load_image
NewPrivateImageData(h, type, path_null, hii, image_info, hii_resource_section) ==
    [ started               |-> FALSE,
      hii_resource_section  |-> hii_resource_section,
      image_info            |-> image_info,
      unload                |-> FALSE,
      exit_data             |-> None,
      image_info_ptr        |-> ImageInfoPtr(h),
      image_device_path_ptr |-> StoredDevicePathPtr(h, path_null),
      image_type            |-> type,
      hii                   |-> hii ]

\* PrivateImageData::new_with_existing_allocation, for the DXE core itself
DxeCorePrivateImageData ==
    [ started               |-> TRUE,
      hii_resource_section  |-> << >>,
      image_info            |-> ImageInfo(UEFI_PAGE_SIZE, BOOT_SERVICES_CODE, BOOT_SERVICES_DATA),
      unload                |-> FALSE,
      exit_data             |-> None,
      image_info_ptr        |-> ImageInfoPtr(DXE_CORE_HANDLE),
      image_device_path_ptr |-> NullPtr,
      image_type            |-> EFI_IMAGE_SUBSYSTEM_EFI_BOOT_SERVICE_DRIVER,
      hii                   |-> FALSE ]

\* The result of a piece of core code: the state it leaves, the call it
\* completed (or NoRet), and the transfers of control it made.
Result(s, r, xfer) == [ s |-> s, ret |-> r, xfer |-> xfer ]

Transfer(at, held) == [ at |-> at, held |-> held ]

\* Result<(), EfiError> and its conversions to and from efi::Status
Ok          == [ ok |-> TRUE, err |-> SUCCESS ]
Err(status) == [ ok |-> FALSE, err |-> status ]

\* the suspend value dropped: every status read as success
StatusDiscarded(status) == Ok

\* match status { efi::Status::SUCCESS => Ok(()), err => Err(err) }
StatusToResult(status) == IF status = SUCCESS THEN Ok ELSE Err(status)

\* match result { Ok(()) => efi::Status::SUCCESS, Err(err) => err }
ResultToStatus(result) == IF result.ok THEN SUCCESS ELSE result.err

\* --------------------------------------------------------------- LoadImage
\* The first step of core_load_image after the authentication that fails.
\* In core_load_pe_image:
\*   "allocate_pages"         core_allocate_pages for the image
\*   "align_up"               align_up of the image's base page
\*   "pe_load"                pecoff::load_image
\*   "relocate_image"         pecoff::relocate_image
\*   "load_resource_section"  pecoff::load_resource_section
\*   "allocate_hii_pages"     core_allocate_pages for the resource section
\*   "hii_align_up"           align_up of the resource section's base page
\* and after it the installs and registrations of core_load_image.
PeLoadFailures == { "allocate_pages", "align_up", "pe_load", "relocate_image",
                    "load_resource_section", "allocate_hii_pages", "hii_align_up" }

LoadFailures == { "none", "install_loaded_image",
                  "copy_device_path", "add_runtime_image",
                  "install_device_path", "install_hii" } \cup PeLoadFailures

\* The PE descriptor UefiPeInfo::parse gives (parse_ok: it gives one); the
\* subsystem and the presence of a resource section are given beside it.
PlainPe == [ parse_ok |-> TRUE, section_alignment |-> UEFI_PAGE_SIZE,
             size_of_image |-> UEFI_PAGE_SIZE, nx_compat |-> TRUE ]

\* The bytes of a PE, counted in chunks of half a page; offsets start at 0
\* and a chunk is named by what it holds (0: zeroes).
\*   image                the source, a sequence of chunks
\*   size_of_headers      the chunks of the headers
\*   pointer_to_raw_data, size_of_raw_data, virtual_address
\*                        of the .rsrc section: where it is in the source, how
\*                        long, and where it goes in the loaded image
\*   offset, size         what pecoff::load_resource_section reports
\*   fresh                what newly allocated pages hold
Chunk == UEFI_PAGE_SIZE \div 2

PlainLayout == [ image |-> << 1, 2 >>, size_of_headers |-> 1, pointer_to_raw_data |-> 1,
                 size_of_raw_data |-> 1, virtual_address |-> 1, offset |-> 1, size |-> 1,
                 fresh |-> 0 ]

\* Bit masks are sets of bit names: | is \cup, & !mask is \ mask.
\* The characteristics of a section that apply_image_memory_protections reads
SectionCharacteristics == { "IMAGE_SCN_CNT_CODE", "IMAGE_SCN_MEM_READ", "IMAGE_SCN_MEM_WRITE" }
\* efi::MEMORY_ACCESS_MASK
MEMORY_ACCESS_MASK == { "MEMORY_RP", "MEMORY_XP", "MEMORY_RO" }

\* A section of the PE and the GCD's answer for its range:
\*   characteristics  the section's characteristics
\*   descriptor       core_get_memory_space_descriptor finds the range
\*   attributes       the attributes the range has in the descriptor
PlainSection == [ characteristics |-> { "IMAGE_SCN_CNT_CODE", "IMAGE_SCN_MEM_READ" },
                  descriptor |-> TRUE, attributes |-> { "MEMORY_XP", "MEMORY_WB" } ]

\* What a load-file protocol on the device path answers:
\*   "none"          no device on the path has the protocol
\*   "read"          BUFFER_TOO_SMALL to the size query, SUCCESS to the read
\*   "size_success"  SUCCESS to the size query
\*   "size_error"    another error to the size query
\*   "read_error"    BUFFER_TOO_SMALL to the size query, an error to the read
LoadFileAnswers == { "none", "read", "size_success", "size_error", "read_error" }

\* What the sources on the device path answer: the firmware volume and the
\* simple file system give the file or fail
SourceAnswers == [ fv : BOOLEAN, sfs : BOOLEAN, lf2 : LoadFileAnswers, lf : LoadFileAnswers ]
NoSource == [ fv |-> FALSE, sfs |-> FALSE, lf2 |-> "none", lf |-> "none" ]
FvSource == [ fv |-> TRUE, sfs |-> TRUE, lf2 |-> "read", lf |-> "read" ]
SfsSource == [ fv |-> FALSE, sfs |-> TRUE, lf2 |-> "read", lf |-> "read" ]

\* What a security protocol answers: it is not installed, or its status
SecurityStatuses == { SUCCESS, ACCESS_DENIED }
SecurityAnswers == { "absent" } \cup SecurityStatuses
AuthAnswers == [ security2 : SecurityAnswers, security : SecurityAnswers ]
NoSecurity == [ security2 |-> "absent", security |-> "absent" ]
SecurityDenies == [ security2 |-> "absent", security |-> ACCESS_DENIED ]

\* the two calls of load_file of a load-file protocol
SizeQuery(protocol, boot_policy) ==
    [ protocol |-> protocol, boot_policy |-> boot_policy, buffer_size |-> 0, buffer |-> "null" ]
ReadCall(protocol, boot_policy) ==
    [ protocol |-> protocol, boot_policy |-> boot_policy, buffer_size |-> "size", buffer |-> "file_buffer" ]

FileBuffer(result, calls) == [ result |-> result, calls |-> calls ]

\* the status of the size query of a load-file protocol answering `answer`
SizeQueryStatus(answer) ==
    IF answer = "size_success" THEN SUCCESS
    ELSE IF answer = "size_error" THEN UNSUPPORTED
    ELSE BUFFER_TOO_SMALL

\* match status { BUFFER_TOO_SMALL => (), SUCCESS => Err(DeviceError)?, _ => status_to_result(status)? }
SizeQueryResult(status) ==
    IF status = BUFFER_TOO_SMALL THEN Ok
    ELSE IF status = SUCCESS THEN Err(DEVICE_ERROR)
    ELSE Err(status)

get_file_buffer_from_load_protocol(protocol, boot_policy, answer) ==
    IF protocol = LOAD_FILE2 /\ boot_policy THEN FileBuffer(Err(INVALID_PARAMETER), << >>)
    ELSE IF answer = "none" THEN FileBuffer(Err(NOT_FOUND), << >>)
    ELSE LET size == SizeQueryResult(SizeQueryStatus(answer))
             q    == << SizeQuery(protocol, boot_policy) >>
         IN  IF ~size.ok THEN FileBuffer(size, q)
             ELSE FileBuffer(IF answer = "read_error" THEN Err(ABORTED) ELSE Ok,
                             Append(q, ReadCall(protocol, boot_policy)))

\* the image to load: the result, where the bytes come from, from_fv,
\* authentication_status, the sources consulted and the load-file calls made
ImageToLoad(result, image, from_fv, consulted, calls) ==
    [ result |-> result, image |-> image, from_fv |-> from_fv, authentication_status |-> 0,
      consulted |-> consulted, calls |-> calls ]

\* LoadFile2 asked whatever boot_policy is
LoadFile2AlwaysAsked(boot_policy) == TRUE

\* LoadFile2 is asked only if boot_policy is false
LoadFile2Asked(boot_policy) == ~boot_policy

get_buffer_by_file_path(boot_policy, path_null, src) ==
    LET lf2 == get_file_buffer_from_load_protocol(LOAD_FILE2, FALSE, src.lf2)
        lf  == get_file_buffer_from_load_protocol(LOAD_FILE, boot_policy, src.lf)
        c2  == IF LoadFile2Asked(boot_policy) THEN << "fv", "sfs", "lf2" >> ELSE << "fv", "sfs" >>
        k2  == IF LoadFile2Asked(boot_policy) THEN lf2.calls ELSE << >>
    IN  IF path_null THEN ImageToLoad(Err(INVALID_PARAMETER), "none", FALSE, << >>, << >>)
        ELSE IF src.fv THEN ImageToLoad(Ok, "fv", TRUE, << "fv" >>, << >>)
        ELSE IF src.sfs THEN ImageToLoad(Ok, "sfs", FALSE, << "fv", "sfs" >>, << >>)
        ELSE IF LoadFile2Asked(boot_policy) /\ lf2.result.ok
            THEN ImageToLoad(Ok, "lf2", FALSE, c2, k2)
        ELSE IF lf.result.ok
            THEN ImageToLoad(Ok, "lf", FALSE, Append(c2, "lf"), k2 \o lf.calls)
        ELSE ImageToLoad(Err(NOT_FOUND), "none", FALSE, Append(c2, "lf"), k2 \o lf.calls)

\* Some(image): the caller's buffer
CallerBuffer == ImageToLoad(Ok, "buffer", FALSE, << >>, << >>)

\* the calls of the security protocols
FileAuthentication(device_path, image, boot_policy) ==
    [ fn |-> "file_authentication", device_path |-> device_path, image |-> image,
      boot_policy |-> boot_policy ]
FileAuthenticationState(authentication_status, device_path) ==
    [ fn |-> "file_authentication_state", authentication_status |-> authentication_status,
      device_path |-> device_path ]

Authenticated(status, calls) == [ panic |-> FALSE, status |-> status, calls |-> calls ]
\* security_protocol.expect(..) on None
AuthenticatePanics(calls) == [ panic |-> TRUE, status |-> SUCCESS, calls |-> calls ]

\* the Security protocol asked after every answer of Security2
StateCheckedAlways(security_status, from_fv) == TRUE

\* security_status == SUCCESS && from_fv
StateChecked(security_status, from_fv) == security_status = SUCCESS /\ from_fv

authenticate_image(device_path, image, boot_policy, from_fv, authentication_status, auth) ==
    LET c2 == FileAuthentication(device_path, image, boot_policy)
        c1 == FileAuthenticationState(authentication_status, device_path)
    IN  IF auth.security2 # "absent"
        THEN IF StateChecked(auth.security2, from_fv)
             THEN IF auth.security = "absent" THEN AuthenticatePanics(<< c2 >>)
                  ELSE Authenticated(auth.security, << c2, c1 >>)
             ELSE Authenticated(auth.security2, << c2 >>)
        ELSE IF auth.security # "absent" THEN Authenticated(auth.security, << c1 >>)
        ELSE Authenticated(SUCCESS, << >>)

\* The arguments of load_image and the answers of the services it calls:
\*   out_null     image_handle is null
\*   has_image    source_buffer is not null;  size_zero: source_size is 0
\*   path_null    device_path is null
\*   boot_policy  the boot_policy argument
\*   type, hii    the PE's subsystem, and whether it has a resource section
\*   src          what the sources on the device path answer
\*   auth         what the security protocols answer
\*   fail         the first step after the authentication that fails
\*   pe           the PE descriptor parsed from the image
\*   compat       the build has the feature compatibility_mode_allowed
\*   layout       the bytes of the PE and of its resource section
\*   section      a section of the PE and what the GCD answers for it
\*   base         the address core_allocate_pages returns for the image
\*   read_section_status
\*                the authentication status read_section of the firmware
\*                volume reports for the file
LoadInputsOf(sources, auths) ==
    { in \in [ out_null : BOOLEAN, has_image : BOOLEAN, size_zero : BOOLEAN,
               path_null : BOOLEAN, boot_policy : { FALSE }, parent : Handles,
               type : ImageTypes, hii : BOOLEAN, fail : LoadFailures,
               src : sources, auth : auths, pe : { PlainPe }, compat : { FALSE },
               layout : { PlainLayout }, read_section_status : { 0 },
               section : { PlainSection }, base : { UEFI_PAGE_SIZE } ] :
        /\ in.size_zero => in.has_image
        /\ (in.fail \in { "allocate_hii_pages", "hii_align_up" }) => in.hii
        /\ (in.fail = "copy_device_path") => ~in.path_null
        /\ (in.fail = "add_runtime_image") => (in.type = EFI_IMAGE_SUBSYSTEM_EFI_RUNTIME_DRIVER)
        /\ (in.fail = "install_hii") => in.hii
        \* no source is asked if there is a buffer or no path
        /\ (in.has_image \/ in.path_null) => in.src = NoSource
        /\ (in.src = NoSource /\ ~in.has_image) => (in.fail = "none" /\ in.auth = NoSecurity)
        \* one representative of the inputs rejected before anything is read
        /\ (in.out_null \/ in.size_zero \/ (~in.has_image /\ in.path_null)) =>
               (in.type = EFI_IMAGE_SUBSYSTEM_EFI_APPLICATION /\ ~in.hii
                /\ in.fail = "none" /\ in.auth = NoSecurity /\ in.parent = DXE_CORE_HANDLE) }

\* loads from a buffer or a firmware volume, trusted or denied by Security
LoadInputs == LoadInputsOf({ NoSource, FvSource }, { NoSecurity, SecurityDenies })

\* a well-formed load from a device path or a buffer, with the given answers,
\* in which every step after the authentication succeeds
PlainLoad(has_image, path_null, boot_policy, parent, type, src, auth) ==
    [ out_null |-> FALSE, has_image |-> has_image, size_zero |-> FALSE, path_null |-> path_null,
      boot_policy |-> boot_policy, parent |-> parent, type |-> type, hii |-> FALSE,
      fail |-> "none", src |-> src, auth |-> auth, pe |-> PlainPe, compat |-> FALSE,
      layout |-> PlainLayout, read_section_status |-> 0, section |-> PlainSection,
      base |-> UEFI_PAGE_SIZE ]

\* the loads of an image in a buffer, with a null device path and no resource
\* section, in which no external step fails
BufferLoadInputs ==
    { PlainLoad(TRUE, TRUE, FALSE, parent, type, NoSource, NoSecurity) :
        parent \in Handles, type \in ImageTypes }

\* every combination of the arguments load_image checks
ArgumentLoadInputs ==
    { [ PlainLoad(has_image, path_null, FALSE, parent, EFI_IMAGE_SUBSYSTEM_EFI_APPLICATION,
                  NoSource, NoSecurity)
          EXCEPT !.out_null = out_null, !.size_zero = has_image /\ size_zero ] :
        out_null \in BOOLEAN, has_image \in BOOLEAN, size_zero \in BOOLEAN,
        path_null \in BOOLEAN, parent \in Handles }

\* loads from a device path with every answer of the sources, loads from
\* a firmware volume, a file system and a buffer (with and without a device
\* path) with every answer of the security protocols
SourceLoadInputs ==
    UNION { { PlainLoad(FALSE, FALSE, b, DXE_CORE_HANDLE, type, src, NoSecurity) :
                src \in SourceAnswers }
            \cup { PlainLoad(FALSE, FALSE, b, DXE_CORE_HANDLE, type, src, auth) :
                     src \in { FvSource, SfsSource }, auth \in AuthAnswers }
            \cup { PlainLoad(TRUE, p, b, DXE_CORE_HANDLE, type, NoSource, auth) :
                     p \in BOOLEAN, auth \in AuthAnswers } :
            b \in BOOLEAN, type \in ImageTypes }

\* subsystems of a PE: the three the loader takes and one on either side
Subsystems == (EFI_IMAGE_SUBSYSTEM_EFI_APPLICATION - 1) .. (EFI_IMAGE_SUBSYSTEM_EFI_RUNTIME_DRIVER + 1)

\* section alignments and image sizes, in half pages
PeDescriptors ==
    [ parse_ok : BOOLEAN,
      section_alignment : { k * (UEFI_PAGE_SIZE \div 2) : k \in { 0, 1, 2, 4 } },
      size_of_image : { k * (UEFI_PAGE_SIZE \div 2) : k \in { 2, 3, 4 } },
      nx_compat : { TRUE } ]

\* loads of an image in a buffer: with every PE descriptor and subsystem; of
\* a well-formed PE with every failure of a step of core_load_pe_image; of an
\* application that is not NX compatible, in either build
PeLoadInputs ==
    { [ PlainLoad(TRUE, TRUE, FALSE, DXE_CORE_HANDLE, type, NoSource, NoSecurity)
          EXCEPT !.pe = pe ] : type \in Subsystems, pe \in PeDescriptors }
    \cup
    { [ PlainLoad(TRUE, TRUE, FALSE, DXE_CORE_HANDLE, type, NoSource, NoSecurity)
          EXCEPT !.hii = hii, !.fail = fail ] :
        type \in ImageTypes, hii \in BOOLEAN, fail \in PeLoadFailures }
    \cup
    { [ PlainLoad(TRUE, TRUE, FALSE, DXE_CORE_HANDLE, EFI_IMAGE_SUBSYSTEM_EFI_APPLICATION,
                  NoSource, NoSecurity)
          EXCEPT !.pe.nx_compat = FALSE, !.hii = hii, !.compat = compat ] :
        hii \in BOOLEAN, compat \in BOOLEAN }

LoadResult(s, result, sec, handle) == [ s |-> s, result |-> result, sec |-> sec, handle |-> handle ]

\* the subsystem is not looked at: every image is loaded as a boot-service driver
AnySubsystemAccepted(image_type) == Some(<< BOOT_SERVICES_CODE, BOOT_SERVICES_DATA >>)

\* match pe_info.image_type: the code and data memory types, if it is supported
MemoryTypes(image_type) ==
    IF image_type = EFI_IMAGE_SUBSYSTEM_EFI_APPLICATION
        THEN Some(<< LOADER_CODE, LOADER_DATA >>)
    ELSE IF image_type = EFI_IMAGE_SUBSYSTEM_EFI_BOOT_SERVICE_DRIVER
        THEN Some(<< BOOT_SERVICES_CODE, BOOT_SERVICES_DATA >>)
    ELSE IF image_type = EFI_IMAGE_SUBSYSTEM_EFI_RUNTIME_DRIVER
        THEN Some(<< RUNTIME_SERVICES_CODE, RUNTIME_SERVICES_DATA >>)
    ELSE None

\* core_load_pe_image up to the allocation: the parse and the checks of the descriptor
PeValidation(image_type, pe) ==
    IF ~pe.parse_ok THEN Err(UNSUPPORTED)
    ELSE IF MemoryTypes(image_type) = None THEN Err(UNSUPPORTED)
    ELSE IF pe.section_alignment % UEFI_PAGE_SIZE # 0 \/ pe.section_alignment = 0
        THEN Err(LOAD_ERROR)
    ELSE IF pe.size_of_image % pe.section_alignment # 0 THEN Err(LOAD_ERROR)
    ELSE Ok

\* image_info as core_load_pe_image fills it in (the descriptor is valid)
PeImageInfo(image_type, pe) ==
    LET types == CHOOSE t \in MemoryTypes(image_type) : TRUE
    IN  ImageInfo(pe.size_of_image, types[1], types[2])

\* pecoff::load_image: the headers and the section are copied into the
\* buffer of `len` chunks, the section at its virtual address; the rest is zero
pecoff_load_image(layout, len) ==
    [ i \in 1 .. len |->
        IF i <= layout.size_of_headers THEN layout.image[i]
        ELSE IF /\ layout.virtual_address < i
                /\ i <= layout.virtual_address + layout.size_of_raw_data
                /\ layout.pointer_to_raw_data + (i - layout.virtual_address) <= Len(layout.image)
            THEN layout.image[layout.pointer_to_raw_data + (i - layout.virtual_address)]
        ELSE 0 ]

\* core_load_pe_image, the copy into hii_resource_section: `size` chunks,
\* copied from image_buffer (the loaded image) at `offset` if they lie within
\* it; if not, the error is logged and the pages stay as they were allocated
\* (a build with debug assertions panics there)
CopiedResourceSection(in) ==
    LET loaded_image == pecoff_load_image(in.layout, in.pe.size_of_image \div Chunk)
    IN  IF in.layout.offset + in.layout.size <= Len(loaded_image)
            THEN SubSeq(loaded_image, in.layout.offset + 1, in.layout.offset + in.layout.size)
        ELSE [ i \in 1 .. in.layout.size |-> in.layout.fresh ]

\* a code section keeps the XP it starts with: attributes |= MEMORY_RO
CodeKeepsXp(characteristics) ==
    IF "IMAGE_SCN_CNT_CODE" \in characteristics
    THEN { "MEMORY_XP", "MEMORY_RO" } ELSE { "MEMORY_XP" }

\* let mut attributes = MEMORY_XP; if CNT_CODE { attributes = MEMORY_RO }
CodeAttributes(characteristics) ==
    IF "IMAGE_SCN_CNT_CODE" \in characteristics THEN { "MEMORY_RO" } ELSE { "MEMORY_XP" }

\* apply_image_memory_protections, for one section: the attributes it sets
\* on the section's range, None if the GCD has no descriptor for the range
\* (the error is logged and the section skipped)
SectionAttributes(section) ==
    LET c == section.characteristics
        attributes == IF "IMAGE_SCN_MEM_WRITE" \notin c /\ "IMAGE_SCN_MEM_READ" \in c
                      THEN CodeAttributes(c) \cup { "MEMORY_RO" }
                      ELSE CodeAttributes(c)
    IN  IF section.descriptor
            THEN Some(attributes \cup (section.attributes \ MEMORY_ACCESS_MASK))
        ELSE None

\* a page range that was allocated and whose address nothing holds any more
LostPages(p) == [ kind |-> "lost", h |-> p.h ]

\* private_info of the load of h is dropped inside core_load_image or
\* core_load_pe_image: impl Drop frees its pages, with the attributes they have
DropPrivateInfo(s, h, hii) ==
    [ s EXCEPT !.pg   = DropPrivateImageData(@, h, [ hii |-> hii ]),
               !.attr = Remove(@, h),
               !.ld.freed_attr = s.attr[h] ]

PeResult(s, result) == [ s |-> s, result |-> result ]

\* uefi_size_to_pages!: the pages that hold `size` bytes
uefi_size_to_pages(size) ==
    (size \div UEFI_PAGE_SIZE) + (IF size % UEFI_PAGE_SIZE # 0 THEN 1 ELSE 0)

\* align_up: the first multiple of `alignment` at or above `addr`
align_up(addr, alignment) == ((addr + alignment - 1) \div alignment) * alignment

\* u64::checked_add and usize::try_from
checked_add(a, c) == IF a + c < 2 ^ U64Bits THEN Some(a + c) ELSE None
usize_try_from(x) == IF x < 2 ^ UsizeBits THEN Some(x) ELSE None

\* no room for the alignment: the pages of the image size alone
NoAlignmentSlack(image_size, section_alignment) ==
    Some(uefi_size_to_pages(image_size))

\* PrivateImageData::new, num_pages: None where it returns LoadError
NumPages(image_size, section_alignment) ==
    IF section_alignment > UEFI_PAGE_SIZE
        THEN LET sum == checked_add(image_size, section_alignment)
             IN  IF sum = None THEN None
                 ELSE LET size == usize_try_from(CHOOSE x \in sum : TRUE)
                      IN  IF size = None THEN None
                          ELSE Some(uefi_size_to_pages(CHOOSE x \in size : TRUE))
    ELSE LET size == usize_try_from(image_size)
         IN  IF size = None THEN None
             ELSE Some(uefi_size_to_pages(CHOOSE x \in size : TRUE))

\* an image of any subsystem that is not NX compatible
AnyImageNotNxCompatible(image_type, pe) == ~pe.nx_compat

\* EFI_IMAGE_SUBSYSTEM_EFI_APPLICATION if !pe_info.nx_compat
ApplicationNotNxCompatible(image_type, pe) ==
    image_type = EFI_IMAGE_SUBSYSTEM_EFI_APPLICATION /\ ~pe.nx_compat

\* core_load_pe_image: the page ranges of the image loaded for the next
\* handle are named by that handle
core_load_pe_image(s, in) ==
    LET h  == s.nh
        num_pages == NumPages(in.pe.size_of_image, in.pe.section_alignment)
        \* PrivateImageData::new: the image pages, XP as allocated
        s1 == [ s EXCEPT !.pg = @ \cup { ImagePages(h) }, !.attr = Insert(@, h, ATTR_XP),
                         !.ld.alloc = [ num_pages |-> CHOOSE n \in num_pages : TRUE,
                                        image_base_page |-> in.base,
                                        image_buffer |-> align_up(in.base, in.pe.section_alignment) ] ]
        \* allocate_resource_section
        s2 == IF in.hii THEN [ s1 EXCEPT !.pg = @ \cup { HiiPages(h) } ] ELSE s1
        \* activate_compatibility_mode or apply_image_memory_protections
        compatibility == ApplicationNotNxCompatible(in.type, in.pe)
        s3 == [ s2 EXCEPT !.attr[h] = IF compatibility THEN ATTR_CACHE ELSE ATTR_SECTIONS,
                          !.ld.section = IF compatibility THEN @
                                         ELSE [ characteristics |-> in.section.characteristics,
                                                attributes |-> in.section.attributes ],
                          !.ld.written = IF compatibility THEN @
                                         ELSE SectionAttributes(in.section),
                          !.ld.mode = IF compatibility THEN "activated" ELSE "protected" ]
    IN  IF ~PeValidation(in.type, in.pe).ok THEN PeResult(s, PeValidation(in.type, in.pe))
        ELSE IF num_pages = None THEN PeResult(s, Err(LOAD_ERROR))
        ELSE IF in.fail = "allocate_pages" THEN PeResult(s, Err(OUT_OF_RESOURCES))
        \* the error is returned before there is a PrivateImageData to drop
        ELSE IF in.fail = "align_up"
            THEN PeResult([ s EXCEPT !.pg = @ \cup { LostPages(ImagePages(h)) } ], Err(LOAD_ERROR))
        ELSE IF in.fail \in { "pe_load", "relocate_image", "load_resource_section" }
            THEN PeResult(DropPrivateInfo(s1, h, FALSE), Err(LOAD_ERROR))
        ELSE IF in.hii /\ in.fail = "allocate_hii_pages"
            THEN PeResult(DropPrivateInfo(s1, h, FALSE), Err(OUT_OF_RESOURCES))
        \* the error is returned before hii_resource_section_base is set
        ELSE IF in.hii /\ in.fail = "hii_align_up"
            THEN PeResult([ DropPrivateInfo(s1, h, FALSE) EXCEPT !.pg = @ \cup { LostPages(HiiPages(h)) } ],
                          Err(LOAD_ERROR))
        ELSE IF compatibility /\ ~in.compat
            THEN PeResult([ DropPrivateInfo(s2, h, in.hii) EXCEPT !.ld.mode = "denied" ],
                          Err(LOAD_ERROR))
        ELSE PeResult(s3, Ok)

\* the debugger notified before the debug-image-info entry is there
NotifiedBeforeEntry == << "notify_module_load", "new_debug_image_info_entry" >>

\* what core_load_image does for the debugger once LoadedImage is installed
DebugSteps == << "new_debug_image_info_entry", "notify_module_load" >>

\* core_load_image, from the LoadedImage install to the registry insert
LoadInstall(s, in, sec) ==
    LET h  == s.nh
        rec == NewPrivateImageData(h, in.type, in.path_null, in.hii, PeImageInfo(in.type, in.pe),
                                   IF in.hii THEN CopiedResourceSection(in) ELSE << >>)
        \* install LoadedImage on a new handle, register the debug entry,
        \* notify the debugger
        s1 == [ s EXCEPT !.prot = core_install_protocol_interface(@, h, LOADED_IMAGE, ImageInfoPtr(h)),
                         !.dbg  = @ \cup {h},
                         !.nh   = h + 1,
                         !.ld.steps = DebugSteps ]
        \* register a runtime driver with the runtime module
        s2 == IF in.type = EFI_IMAGE_SUBSYSTEM_EFI_RUNTIME_DRIVER
              THEN [ s1 EXCEPT !.rt = @ \cup {h}, !.ld.steps = Append(@, "add_runtime_image") ]
              ELSE s1
        \* install LoadedImageDevicePath
        s3 == [ s2 EXCEPT !.prot = core_install_protocol_interface(@, h, LOADED_IMAGE_DEVICE_PATH,
                                       InstalledDevicePathPtr(h, in.path_null)) ]
        \* install the HII package list
        s4 == IF in.hii
              THEN [ s3 EXCEPT !.prot = core_install_protocol_interface(@, h, HII_PACKAGE_LIST, HiiPtr(h)) ]
              ELSE s3
        \* insert the record, which owns the pages from now on
        s5 == [ s4 EXCEPT !.pid = Insert(@, h, rec) ]
    IN  \* on each early return private_info is dropped: its pages are freed
        IF in.fail = "copy_device_path"
            THEN LoadResult(DropPrivateInfo(s1, h, in.hii), Err(INVALID_PARAMETER), sec, None)
        ELSE IF in.fail = "add_runtime_image"
            THEN LoadResult(DropPrivateInfo(s1, h, in.hii), Err(OUT_OF_RESOURCES), sec, None)
        ELSE IF in.fail = "install_device_path"
            THEN LoadResult(DropPrivateInfo(s2, h, in.hii), Err(OUT_OF_RESOURCES), sec, None)
        ELSE IF in.fail = "install_hii"
            THEN LoadResult(DropPrivateInfo(s3, h, in.hii), Err(OUT_OF_RESOURCES), sec, None)
        ELSE LoadResult(s5, Ok, sec, Some(h))

\* core_load_image from core_load_pe_image on
LoadPe(s, in, sec) ==
    LET pe == core_load_pe_image(s, in)
    IN  IF ~pe.result.ok
            THEN LoadResult([ pe.s EXCEPT !.ld.pe_failed = TRUE ], pe.result, sec, None)
        ELSE IF in.fail = "install_loaded_image"
            THEN LoadResult(DropPrivateInfo(pe.s, s.nh, in.hii), Err(OUT_OF_RESOURCES), sec, None)
        ELSE LoadInstall(pe.s, in, sec)

\* an error of the authentication returned like the error of any other step
AuthenticationErrorAborts(s, in, sec) ==
    IF sec # SUCCESS THEN LoadResult(s, Err(sec), sec, None)
    ELSE LoadPe(s, in, sec)

\* core_load_image after authenticate_image returned the status `sec`
LoadAuthenticated(s, in, sec) == LoadPe(s, in, sec)

core_load_image(s, in) ==
    IF ~in.has_image /\ in.path_null
        THEN LoadResult(s, Err(INVALID_PARAMETER), SUCCESS, None)
    ELSE IF ~validate_handle(s.prot, in.parent)
        THEN LoadResult(s, Err(INVALID_PARAMETER), SUCCESS, None)
    ELSE IF get_interface_for_handle(s.prot, in.parent, LOADED_IMAGE) = {}
        THEN LoadResult(s, Err(INVALID_PARAMETER), SUCCESS, None)
    ELSE LET file_path == IF in.path_null THEN NullPtr ELSE FilePathPtr(s.nh)
             img == IF in.has_image THEN CallerBuffer
                    ELSE get_buffer_by_file_path(in.boot_policy, in.path_null, in.src)
             a   == authenticate_image(file_path, img.image, in.boot_policy, img.from_fv,
                                       img.authentication_status, in.auth)
             ld  == [ s.ld EXCEPT !.op = "load",
                                    !.boot_policy = in.boot_policy,
                                    !.device_path = file_path,
                                    !.src = in.src, !.auth = in.auth,
                                    !.consulted = img.consulted,
                                    !.load_file_calls = img.calls, !.image = img.image,
                                    !.from_fv = img.from_fv,
                                    !.authentication_status = img.authentication_status,
                                    \* get_file_buffer_from_fw: what read_section wrote
                                    \* to its local authentication_status
                                    !.read_section_status =
                                        IF "fv" \in { img.consulted[i] : i \in DOMAIN img.consulted }
                                        THEN in.read_section_status ELSE @ ]
             la  == [ ld EXCEPT !.security_calls = a.calls, !.authenticated = ~a.panic,
                                !.security_status = a.status,
                                !.type = in.type, !.hii = in.hii, !.pe = in.pe,
                                !.compat = in.compat,
                                !.layout = IF in.hii
                                           THEN [ image |-> in.layout.image,
                                                  offset |-> in.layout.offset,
                                                  size |-> in.layout.size ]
                                           ELSE @ ]
         IN  IF ~img.result.ok THEN LoadResult([ s EXCEPT !.ld = ld ], img.result, SUCCESS, None)
             ELSE IF a.panic THEN LoadResult([ s EXCEPT !.ld = la, !.halt = "panic" ], Ok, SUCCESS, None)
             ELSE LoadAuthenticated([ s EXCEPT !.ld = la ], in, a.status)

\* a buffer of size 0 taken like any other buffer
SizeZeroAccepted(in) == FALSE

\* !source_buffer.is_null() with source_size == 0
SizeZeroRejected(in) == in.has_image /\ in.size_zero

\* extern "efiapi" fn load_image
load_image(s, in) ==
    LET s0 == [ s EXCEPT !.ld = [ NoLoad EXCEPT !.op = "call", !.out_null = in.out_null,
                                                !.has_image = in.has_image,
                                                !.size_zero = in.size_zero,
                                                !.path_null = in.path_null,
                                                !.parent = in.parent ] ]
    IN  IF in.out_null
            THEN Result(s0, Done("LoadImage", DXE_CORE_HANDLE, INVALID_PARAMETER, NoGhost), {})
        ELSE IF SizeZeroRejected(in)
            THEN Result(s0, Done("LoadImage", DXE_CORE_HANDLE, LOAD_ERROR, NoGhost), {})
        ELSE LET r == core_load_image(s0, in)
             IN  IF r.s.halt # "none" THEN Result(r.s, NoRet, {})
                 ELSE IF r.result.ok
                 THEN Result(r.s, Done("LoadImage", CHOOSE h \in r.handle : TRUE, r.sec, NoGhost), {})
                 ELSE Result(r.s, Done("LoadImage", DXE_CORE_HANDLE, r.result.err, NoGhost), {})

\* ------------------------------------------------------------- the mutex
\* What each function does with PRIVATE_IMAGE_DATA, in program order, around
\* the places where it hands control over: "lock" is PRIVATE_IMAGE_DATA.lock(),
\* "drop" the end of the guard's life (drop(private_data), or the end of the
\* statement for a temporary guard).
CoreStartImageLockEvents ==
    << "lock", "drop",              \* the check of the record
       "lock", "drop",              \* current_running_image = Some(image_handle)
       "resume",
       "lock", "drop" >>            \* current_running_image = previous_image

\* an image's entry point called while the lock is held
CoroutineBodyKeepsGuard == << "lock", "entry_point", "exit" >>

CoroutineBodyLockEvents ==
    << "lock", "drop",              \* started = true, the yielder pushed
       "entry_point", "exit" >>

ExitLockEvents ==
    << "lock", "drop",              \* the read of started
       "lock", "drop",              \* the check of the running image, the yielder popped
       "suspend" >>

CoreUnloadImageLockEvents ==
    << "lock", "drop",              \* the read of unload and started
       "unload_callback",
       "lock", "drop" >>            \* the record removed

\* the lock is held when the function gets to `point`
HeldBefore(events, point) ==
    LET i == CHOOSE k \in 1 .. Len(events) : events[k] = point
        n(e) == Cardinality({ k \in 1 .. (i - 1) : events[k] = e })
    IN  n("lock") > n("drop")

LockAtResume         == HeldBefore(CoreStartImageLockEvents, "resume")
LockAtEntryPoint     == HeldBefore(CoroutineBodyLockEvents, "entry_point")
LockAtSuspend        == HeldBefore(ExitLockEvents, "suspend")
LockAtUnloadCallback == HeldBefore(CoreUnloadImageLockEvents, "unload_callback")

\* ------------------------------------------------------------- UnloadImage
Frame(kind, h, prev, out_ptrs, cont, status, gh, ul) ==
    [ kind |-> kind, h |-> h, prev |-> prev, out_ptrs |-> out_ptrs, cont |-> cont,
      status |-> status, gh |-> gh, ul |-> ul ]

\* core_unload_image up to the unload callback: what it does next
UnloadDecision(s, h, force) ==
    IF ~validate_handle(s.prot, h) THEN "invalid_handle"
    ELSE IF h \notin DOMAIN s.pid THEN "no_record"
    ELSE IF s.pid[h].started
         THEN IF s.pid[h].unload THEN "callback"
              ELSE IF ~force THEN "unsupported"
              ELSE "proceed"
    ELSE "proceed"

\* protocols uninstalled last, as the last step of the record's release
UninstallAfterFree(rec) ==
    << "remove_record", "remove_image_memory_protections", "free_image_pages" >>
    \o ( IF rec.hii THEN << "free_hii_pages" >> ELSE << >> )
    \o << "uninstall_loaded_image", "uninstall_loaded_image_device_path" >>

\* what core_unload_image does with a record it removes, in program order
UnloadSteps(rec) ==
    << "remove_record", "uninstall_loaded_image", "uninstall_loaded_image_device_path",
       "remove_image_memory_protections", "free_image_pages" >>
    \o ( IF rec.hii THEN << "free_hii_pages" >> ELSE << >> )

\* core_unload_image after the callback: the record is removed and its
\* resources released (h has a record here)
UnloadTail(s, h) ==
    LET rec == s.pid[h]
        p1  == core_uninstall_protocol_interface(s.prot, h, LOADED_IMAGE, rec.image_info_ptr)
        p2  == core_uninstall_protocol_interface(p1, h, LOADED_IMAGE_DEVICE_PATH, rec.image_device_path_ptr)
        \* remove_image_memory_protections, if the image's pages were allocated here
        a   == IF h \in DOMAIN s.attr THEN [ s.attr EXCEPT ![h] = ATTR_XP ] ELSE s.attr
    IN  [ s EXCEPT !.dbg  = @ \ {h},
                   !.pid  = Remove(@, h),
                   !.prot = p2,
                   !.rt   = IF rec.image_type = EFI_IMAGE_SUBSYSTEM_EFI_RUNTIME_DRIVER
                            THEN @ \ {h} ELSE @,
                   \* private_image_data is dropped at the end of the function
                   !.pg   = DropPrivateImageData(@, h, rec),
                   !.attr = Remove(a, h),
                   !.ul   = [ @ EXCEPT !.steps = UnloadSteps(rec),
                                       !.freed_attr = IF h \in DOMAIN a THEN a[h] ELSE "none" ] ]

\* What the caller of core_unload_image does with its result:
\*   "unload_image"  extern fn unload_image returns it
\*   "start_image"   extern fn start_image ignores it and returns its own status
\*   "exit"          exit returns SUCCESS, or INVALID_PARAMETER for any error
UnloadFinish(s, h, result, cont, status, gh, ul) ==
    LET s1 == [ s EXCEPT !.ul = [ ul EXCEPT !.result = result, !.steps = s.ul.steps,
                                            !.freed_attr = s.ul.freed_attr ] ]
    IN  IF cont = "unload_image"
            THEN Result(s1, Done("UnloadImage", h, ResultToStatus(result), gh), {})
        ELSE IF cont = "start_image"
            THEN Result(s1, Done("StartImage", h, status, gh), {})
        ELSE Result(s1, Done("Exit", h, IF result.ok THEN SUCCESS ELSE INVALID_PARAMETER, gh), {})

core_unload_image(s, h, force, cont, status, gh) ==
    LET d   == UnloadDecision(s, h, force)
        rec == d \notin { "invalid_handle", "no_record" }
        ul  == [ NoUnload EXCEPT !.op = "unload", !.h = h, !.force = force,
                                 !.had_record = rec,
                                 !.started = rec /\ s.pid[h].started,
                                 !.callback = rec /\ s.pid[h].unload ]
    IN  IF ~rec
            THEN UnloadFinish(s, h, Err(INVALID_PARAMETER), cont, status, gh, ul)
        ELSE IF d = "unsupported"
            THEN UnloadFinish(s, h, Err(UNSUPPORTED), cont, status, gh, ul)
        ELSE IF d = "callback"
            THEN Result([ s EXCEPT !.fr = Append(@, Frame("unload", h, None, FALSE, cont, status, gh,
                                                          [ ul EXCEPT !.invoked = @ + 1 ])) ],
                        NoRet, { Transfer("unload_callback", LockAtUnloadCallback) })
        ELSE UnloadFinish(UnloadTail(s, h), h, Ok, cont, status, gh, ul)

\* the unload callback (the top frame) returns u: the rest of core_unload_image
UnloadCallbackReturned(s, u) ==
    LET f  == Top(s.fr)
        s0 == [ s EXCEPT !.fr = Pop(@) ]
    IN  IF u # SUCCESS
            THEN UnloadFinish(s0, f.h, Err(u), f.cont, f.status, f.gh, f.ul)
        ELSE IF f.h \notin DOMAIN s0.pid
            \* private_image_data.remove(&image_handle).unwrap() on None
            THEN Result([ s0 EXCEPT !.dbg = @ \ {f.h}, !.halt = "panic" ], NoRet, {})
        ELSE UnloadFinish(UnloadTail(s0, f.h), f.h, Ok, f.cont, f.status, f.gh, f.ul)

\* extern "efiapi" fn unload_image
unload_image(s, h) == core_unload_image(s, h, FALSE, "unload_image", SUCCESS, NoGhost)

\* -------------------------------------------------------------- StartImage
\* the epilogue of start_image with the exit data read after the unload
StartEpilogueUnloadsFirst(s, h, result, out_ptrs, gh) ==
    LET type == IF h \in DOMAIN s.pid THEN Some(s.pid[h].image_type) ELSE None
        r    == IF ~result.ok \/ type = Some(EFI_IMAGE_SUBSYSTEM_EFI_APPLICATION)
                THEN core_unload_image(s, h, TRUE, "start_image", ResultToStatus(result), gh)
                ELSE Result(s, Done("StartImage", h, ResultToStatus(result), gh), {})
        out  == IF out_ptrs /\ h \in DOMAIN r.s.pid THEN r.s.pid[h].exit_data ELSE None
    IN  Result(r.s, [ r.ret EXCEPT !.gh.out = out ], r.xfer)

\* extern fn start_image after core_start_image returned `result`: the exit
\* data is handed out, and the image unloaded on an error or if it is an
\* application
StartEpilogue(s, h, result, out_ptrs, gh) ==
    LET out  == IF out_ptrs /\ h \in DOMAIN s.pid THEN s.pid[h].exit_data ELSE None
        type == IF h \in DOMAIN s.pid THEN Some(s.pid[h].image_type) ELSE None
        gh1  == [ gh EXCEPT !.out = out ]
    IN  IF ~result.ok \/ type = Some(EFI_IMAGE_SUBSYSTEM_EFI_APPLICATION)
        THEN core_unload_image(s, h, TRUE, "start_image", ResultToStatus(result), gh1)
        ELSE Result(s, Done("StartImage", h, ResultToStatus(result), gh1), {})

\* core_start_image after coroutine.resume gave `status`, for the call of
\* frame f (already off the control stack)
FinishStart(s, f, status, xfer) ==
    LET s1 == [ s EXCEPT !.cur = f.prev,                      \* current_running_image = previous_image
                         !.pg  = @ \ { StackPages(f.h) } ]    \* the coroutine and its stack are dropped
        r  == StartEpilogue(s1, f.h, StatusToResult(status), f.out_ptrs,
                            [ f.gh EXCEPT !.given = Some(status) ])
    IN  Result(r.s, r.ret, xfer \cup r.xfer)

\* the coroutine body up to the call of the entry point
MarkStarted(rec) == [ rec EXCEPT !.started = TRUE ]

\* the coroutine body without the push of its yielder
NoYielderPushed(ctx, h) == ctx

PushYielder(ctx, h) == Append(ctx, h)

core_start_image_enter(s, h, out_ptrs, gh) ==
    Result([ s EXCEPT !.pg    = @ \cup { StackPages(h) },
                      !.cur   = Some(h),
                      !.pid   = [ @ EXCEPT ![h] = MarkStarted(@) ],
                      !.ctx   = PushYielder(@, h),
                      !.calls = [ @ EXCEPT ![h] = @ + 1 ],
                      !.fr    = Append(@, Frame("entry", h, s.cur, out_ptrs, "start_image", SUCCESS, gh,
                                                 NoUnload)) ],
           NoRet,
           { Transfer("resume", LockAtResume), Transfer("entry_point", LockAtEntryPoint) })

\* the checks without the one of the started flag
RejectedUnlessLoaded(s, h) ==
    \/ ~validate_handle(s.prot, h)
    \/ h \notin DOMAIN s.pid

\* the checks of core_start_image: the handle is valid, has a record, and the
\* record is not started
StartRejected(s, h) ==
    \/ ~validate_handle(s.prot, h)
    \/ h \notin DOMAIN s.pid
    \/ s.pid[h].started

\* extern "efiapi" fn start_image
start_image(s, h, stack_ok, out_ptrs) ==
    LET loaded == h \in DOMAIN s.pid
        gh == [ NoGhost EXCEPT !.pre_cur = s.cur, !.pre_ctx = s.ctx,
                               !.was_loaded = loaded,
                               !.was_started = loaded /\ s.pid[h].started,
                               !.stack_ok = stack_ok,
                               !.type = IF loaded THEN Some(s.pid[h].image_type) ELSE None,
                               !.calls_before = s.calls[h] ]
    IN  IF StartRejected(s, h) THEN StartEpilogue(s, h, Err(INVALID_PARAMETER), out_ptrs, gh)
        ELSE IF ~stack_ok THEN StartEpilogue(s, h, Err(OUT_OF_RESOURCES), out_ptrs, gh)
        ELSE core_start_image_enter(s, h, out_ptrs, gh)

\* -------------------------------------------------------------------- Exit
\* the exit_data_size and exit_data arguments of Exit
ExitDataSize == 2
ExitArgs == [ size : { 0, ExitDataSize }, ptr : { "null", "data" } ]
NoExitArgs == [ size |-> 0, ptr |-> "null" ]
\* Exit without exit data, and with it
PlainExitArgs == { NoExitArgs, [ size |-> ExitDataSize, ptr |-> "data" ] }

\* the index in the control stack of the entry-point frame of the coroutine
\* that is running (0 if control is on no coroutine)
RunningCoroutine(fr) ==
    LET E == { i \in 1 .. Len(fr) : fr[i].kind = "entry" }
    IN  IF E = {} THEN 0 ELSE CHOOSE i \in E : \A j \in E : j <= i

\* exit stores the exit data in the record, if there is any
StoredExitData(args) == IF args.size # 0 /\ args.ptr # "null" THEN Some(args) ELSE None

StoreExitData(rec, args) ==
    IF StoredExitData(args) # None THEN [ rec EXCEPT !.exit_data = StoredExitData(args) ] ELSE rec

\* yielder.suspend(status) on yielder y: control goes back to the
\* coroutine.resume of the StartImage call that made y, and the frames of that
\* coroutine are gone.  A yielder of a coroutine that is not the running one
\* (it has finished and its stack is freed) makes the behaviour undefined: the
\* machine stops, or the switch happens to land in the running coroutine's
\* resume.
Suspend(s, y, h, status, args) ==
    LET i    == RunningCoroutine(s.fr)
        \* for the properties: whether exit was called with the current running
        \* image, and the exit data it stored for a caller that takes them
        by   == IF Some(h) = s.cur THEN "current" ELSE "other"
        data == IF s.fr[i].out_ptrs THEN StoredExitData(args) ELSE None
        land == FinishStart([ s EXCEPT !.fr = SubSeq(@, 1, i - 1) ],
                            [ s.fr[i] EXCEPT !.gh.suspended_by = by, !.gh.exit_data = data ],
                            status,
                            { Transfer("suspend", LockAtSuspend) })
        stop == Result([ s EXCEPT !.halt = "undefined" ], NoRet,
                       { Transfer("suspend", LockAtSuspend) })
    IN  IF i # 0 /\ s.fr[i].h = y THEN { land }
        ELSE IF i # 0 THEN { stop, land }
        ELSE { stop }

\* What a call of exit comes to: it returns v to its caller in state s, or it
\* does not return and control went where `r` says
Returned(s, v) == [ returned |-> TRUE, s |-> s, v |-> v, r |-> Result(s, NoRet, {}) ]
Switched(r)    == [ returned |-> FALSE, s |-> r.s, v |-> SUCCESS, r |-> r ]

\* What an Exit call found when it was made (read by the properties only)
ExitGhost(s, h) ==
    [ NoGhost EXCEPT !.pre_cur = s.cur, !.pre_ctx = s.ctx,
                     !.was_loaded = h \in DOMAIN s.pid,
                     !.was_started = h \in DOMAIN s.pid /\ s.pid[h].started ]

\* exit of an image that was never started, leaving the image loaded
ExitNotStartedKeepsImage(s, h, status) == Result(s, Done("Exit", h, SUCCESS, NoGhost), {})

\* exit of an image that was never started: the image is unloaded
ExitNotStarted(s, h, status) == core_unload_image(s, h, TRUE, "exit", status, NoGhost)

\* exit without the check of the current running image
AnyStartedImageMayExit(s, h) == FALSE

\* exit of a started image that is not the current running image is refused
NotCurrentRunningImage(s, h) == Some(h) # s.cur

\* extern "efiapi" fn exit.  The result is a set: the outcomes of suspend.
exit(s, h, status, args) ==
    IF h \notin DOMAIN s.pid THEN { Returned(s, INVALID_PARAMETER) }
    ELSE IF ~s.pid[h].started
        THEN LET r == ExitNotStarted(s, h, status)
             IN  { Returned(r.s, r.ret.status) }
    ELSE IF NotCurrentRunningImage(s, h) THEN { Returned(s, INVALID_PARAMETER) }
    ELSE LET s1 == [ s EXCEPT !.pid = [ @ EXCEPT ![h] = StoreExitData(@, args) ] ]
         IN  IF s1.ctx # << >>
             THEN { Switched(r) :
                      r \in Suspend([ s1 EXCEPT !.ctx = Pop(@) ], Top(s1.ctx), h, status, args) }
             ELSE { Returned(s1, ACCESS_DENIED) }

\* Exit called by image code: a return of exit goes to the caller
ExitReturnsToCaller(s, h, v, gh) == Result(s, Done("Exit", h, v, gh), {})

exit_called(s, h, status, args) ==
    { IF o.returned THEN ExitReturnsToCaller(o.s, h, o.v, ExitGhost(s, h)) ELSE o.r :
        o \in exit(s, h, status, args) }

\* The entry point (the top frame) returns `status`: the coroutine body calls
\* exit(image_handle, status, 0, null); if that returns, the body returns
\* status and coroutine.resume gives CoroutineResult::Return(status).
entry_point_returned(s, status) ==
    LET f == Top(s.fr)
        c == f.h \in DOMAIN s.pid /\ s.pid[f.h].started /\ Some(f.h) = s.cur
    IN  { IF o.returned
            THEN FinishStart([ o.s EXCEPT !.fr = Pop(@) ], [ f EXCEPT !.gh.exit_returned = c ],
                             status, {})
            ELSE o.r :
            o \in exit(s, f.h, status, NoExitArgs) }

\* -------------------------------------------------------------- ImageStack
\* efi::MEMORY_ATTRIBUTE_MASK, the cache bits, and patina's DEFAULT_CACHE_ATTR
MEMORY_ATTRIBUTE_MASK == MEMORY_ACCESS_MASK \cup { "MEMORY_SP", "MEMORY_CPU_CRYPTO" }
CACHE_ATTRIBUTE_MASK  == { "MEMORY_UC", "MEMORY_WC", "MEMORY_WT", "MEMORY_WB" }
DEFAULT_CACHE_ATTR    == { "MEMORY_WB" }

\* What a drop of an ImageStack did (read by the properties only): the pages
\* that were allocated, the guard page's attributes before the drop, what the
\* GCD answered, and the core_free_pages call with the guard page's
\* attributes when it was made.
NoDrop == [ dropped |-> FALSE, allocated |-> [ base |-> 0, pages |-> 0 ],
            before |-> {}, descriptor |-> FALSE, set_ok |-> FALSE,
            freed |-> [ base |-> 0, pages |-> 0 ], guard |-> {} ]

\* no page for the guard
NoGuardPage(len) == uefi_size_to_pages(len)

\* ImageStack::new, allocated_pages: an extra page for the stack guard page
allocated_pages(len) == uefi_size_to_pages(len) + 1

\* ImageStack::new(size) with the answers of the allocator and the GCD:
\*   stack       the address core_allocate_pages returns
\*   cache       the cache attributes of the pages it returns (they have MEMORY_XP)
\*   descriptor  core_get_memory_space_descriptor finds the guard page
\*   set_ok      core_set_memory_space_attributes accepts the change
ImageStack_new(size, stack, cache, descriptor, set_ok) ==
    LET len        == align_up(IF size > MIN_STACK_SIZE THEN size ELSE MIN_STACK_SIZE,
                               STACK_ALIGNMENT)
        allocated  == cache \cup { "MEMORY_XP" }
        attributes == IF descriptor THEN allocated ELSE DEFAULT_CACHE_ATTR
    IN  [ image_stack |-> [ stack |-> stack + UEFI_PAGE_SIZE, len |-> len,
                            allocated_pages |-> allocated_pages(len), size |-> size ],
          stack_pages |-> [ base |-> stack, pages |-> allocated_pages(len),
                            guard |-> IF set_ok THEN attributes \cup { "MEMORY_RP" }
                                      ELSE allocated ] ]

\* impl Drop for ImageStack, with the answers of the GCD
ImageStack_drop(self, mem, descriptor, set_ok) ==
    LET stack_addr == self.stack - UEFI_PAGE_SIZE
        attributes == (IF descriptor THEN mem.guard \ MEMORY_ATTRIBUTE_MASK
                       ELSE DEFAULT_CACHE_ATTR) \cup { "MEMORY_XP" }
        guard      == IF set_ok THEN attributes ELSE mem.guard
    IN  [ dropped |-> TRUE, allocated |-> [ base |-> mem.base, pages |-> mem.pages ],
          before |-> mem.guard, descriptor |-> descriptor, set_ok |-> set_ok,
          \* core_free_pages(stack_addr, self.allocated_pages)
          freed |-> [ base |-> stack_addr, pages |-> self.allocated_pages ],
          guard |-> guard ]

\* the sizes asked for (core_start_image asks for ENTRY_POINT_STACK_SIZE) and
\* the addresses and cache attributes of the pages the allocator returns
StackSizes  == { 1, MIN_STACK_SIZE, MIN_STACK_SIZE + 1, 2 * MIN_STACK_SIZE + STACK_ALIGNMENT,
                 ENTRY_POINT_STACK_SIZE }
StackBases  == { k * UEFI_PAGE_SIZE : k \in 1 .. 3 }
StackCaches == { { "MEMORY_WB" }, { "MEMORY_UC" } }

ImageStackNew ==
    /\ image_stack = None
    /\ \E size \in StackSizes, stack \in StackBases, cache \in StackCaches,
          allocate_ok \in BOOLEAN, descriptor \in BOOLEAN, set_ok \in BOOLEAN :
          LET new == ImageStack_new(size, stack, cache, descriptor, set_ok)
          IN  /\ image_stack' = IF allocate_ok THEN Some(new.image_stack) ELSE None
              /\ stack_pages' = IF allocate_ok THEN Some(new.stack_pages) ELSE None
    /\ last_drop' = NoDrop
    /\ UNCHANGED << image_vars, comm_buffer, last_comm >>

ImageStackDrop ==
    /\ image_stack # None
    /\ \E self \in image_stack, mem \in stack_pages, descriptor \in BOOLEAN, set_ok \in BOOLEAN :
          LET drop == ImageStack_drop(self, mem, descriptor, set_ok)
          IN  /\ last_drop' = drop
              /\ image_stack' = None
              /\ stack_pages' = IF drop.freed = drop.allocated THEN None ELSE stack_pages
    /\ UNCHANGED << image_vars, comm_buffer, last_comm >>

\* ------------------------------------------------------- CommunicateBuffer
\* CommunicateBufferStatus values, and Ok(())
COMM_OK               == "Ok"
TOO_SMALL_FOR_HEADER  == "TooSmallForHeader"
TOO_SMALL_FOR_MESSAGE == "TooSmallForMessage"
INVALID_RECIPIENT     == "InvalidRecipient"

\* EfiMmCommunicateHeader::size(): a Guid and a usize
MESSAGE_START_OFFSET == GuidSize + UsizeSize

\* usize::to_le_bytes, and the read of a usize from memory
to_le_bytes(n) == [ i \in 1 .. UsizeSize |-> (n \div (256 ^ (i - 1))) % 256 ]
RECURSIVE from_le_bytes(_)
from_le_bytes(bytes) ==
    IF bytes = << >> THEN 0 ELSE bytes[1] + 256 * from_le_bytes(Tail(bytes))

\* EfiMmCommunicateHeader::new(recipient, message_length).as_bytes()
header_bytes(recipient, message_length) == recipient \o to_le_bytes(message_length)

zero_guid == [ i \in 1 .. GuidSize |-> 0 ]

\* slice[from ..].copy_from_slice(bytes): `bytes` written at index `from` (from 0)
copy_from_slice(slice, from, bytes) ==
    [ i \in 1 .. Len(slice) |->
        IF from < i /\ i <= from + Len(bytes) THEN bytes[i - from] ELSE slice[i] ]

\* CommunicateBuffer::new: the memory is zeroed
CommunicateBuffer_new(length) ==
    [ memory |-> [ i \in 1 .. length |-> 0 ], private_recipient |-> None,
      private_message_length |-> 0 ]

\* CommunicateBuffer::verify_state_consistency
verify_state_consistency(self) ==
    IF Len(self.memory) < MESSAGE_START_OFFSET THEN TOO_SMALL_FOR_HEADER
    ELSE LET memory_guid == SubSeq(self.memory, 1, GuidSize)
             memory_message_length ==
                 from_le_bytes(SubSeq(self.memory, GuidSize + 1, MESSAGE_START_OFFSET))
             expected == IF self.private_recipient = None THEN zero_guid
                         ELSE CHOOSE g \in self.private_recipient : TRUE
         IN  IF memory_guid # expected THEN INVALID_RECIPIENT
             ELSE IF memory_message_length # self.private_message_length
                 THEN TOO_SMALL_FOR_MESSAGE
             ELSE COMM_OK

\* CommunicateBuffer::validate_capacity
validate_capacity(self, message_size) ==
    IF Len(self.memory) < MESSAGE_START_OFFSET THEN TOO_SMALL_FOR_HEADER
    ELSE IF message_size > Len(self.memory) - MESSAGE_START_OFFSET THEN TOO_SMALL_FOR_MESSAGE
    ELSE COMM_OK

CommResult(self, status) == [ self |-> self, status |-> status ]

\* CommunicateBuffer::set_message_info
set_message_info(self, recipient) ==
    IF validate_capacity(self, 0) # COMM_OK THEN CommResult(self, validate_capacity(self, 0))
    ELSE LET s1 == [ self EXCEPT !.private_recipient = Some(recipient) ]
             s2 == [ s1 EXCEPT !.memory =
                        copy_from_slice(@, 0, header_bytes(recipient, s1.private_message_length)) ]
         IN  CommResult(s2, verify_state_consistency(s2))

\* CommunicateBuffer::set_message
set_message(self, message) ==
    IF validate_capacity(self, Len(message)) # COMM_OK
        THEN CommResult(self, validate_capacity(self, Len(message)))
    ELSE IF self.private_recipient = None THEN CommResult(self, INVALID_RECIPIENT)
    ELSE LET recipient == CHOOSE g \in self.private_recipient : TRUE
             s1 == [ self EXCEPT !.private_message_length = Len(message) ]
             s2 == [ s1 EXCEPT !.memory =
                        copy_from_slice(@, 0, header_bytes(recipient, Len(message))) ]
             s3 == [ s2 EXCEPT !.memory = copy_from_slice(@, MESSAGE_START_OFFSET, message) ]
         IN  CommResult(s3, verify_state_consistency(s3))

\* reset that keeps the private recipient
ResetKeepsRecipient(self) ==
    [ self EXCEPT !.memory = [ i \in 1 .. Len(self.memory) |-> 0 ],
                  !.private_message_length = 0 ]

\* CommunicateBuffer::reset
reset(self) ==
    [ memory |-> [ i \in 1 .. Len(self.memory) |-> 0 ], private_recipient |-> None,
      private_message_length |-> 0 ]

\* CommunicateBuffer::get_message: the status and, if it is Ok, the message
get_message(self) ==
    IF verify_state_consistency(self) # COMM_OK
        THEN [ status |-> verify_state_consistency(self), message |-> << >> ]
    ELSE IF self.private_message_length = 0 THEN [ status |-> COMM_OK, message |-> << >> ]
    ELSE IF MESSAGE_START_OFFSET + self.private_message_length > Len(self.memory)
        THEN [ status |-> TOO_SMALL_FOR_MESSAGE, message |-> << >> ]
    ELSE [ status |-> COMM_OK,
           message |-> SubSeq(self.memory, MESSAGE_START_OFFSET + 1,
                              MESSAGE_START_OFFSET + self.private_message_length) ]

\* The call of the last step (read by the properties only): the operation,
\* its arguments, its status, the buffer before it, what get_message
\* returned, and the message of the last set_message that succeeded since the
\* buffer was made or reset.
NoComm == [ op |-> "none", recipient |-> << >>, message |-> << >>, status |-> "Ok",
            before |-> CommunicateBuffer_new(0), got |-> << >>, sent |-> << >> ]

\* the buffers made (one cannot hold the header), the recipients (one is the
\* zero GUID) and the messages given (some longer than any buffer holds)
BufferLengths == { MESSAGE_START_OFFSET - 1, MESSAGE_START_OFFSET, MESSAGE_START_OFFSET + MaxMessage }
Recipients    == { zero_guid, [ i \in 1 .. GuidSize |-> i ], [ i \in 1 .. GuidSize |-> 255 ] }
Messages      == UNION { [ 1 .. n -> { 0, 255 } ] : n \in 0 .. MaxMessage + 1 }

CommStep(op, recipient, message, result, got, sent) ==
    /\ comm_buffer' = Some(result.self)
    /\ last_comm' = [ op |-> op, recipient |-> recipient, message |-> message,
                      status |-> result.status,
                      before |-> CHOOSE self \in comm_buffer : TRUE,
                      got |-> got, sent |-> sent ]
    /\ UNCHANGED << image_vars, image_stack, stack_pages, last_drop >>

CommunicateBufferNew ==
    /\ comm_buffer = None
    /\ \E length \in BufferLengths :
          /\ comm_buffer' = Some(CommunicateBuffer_new(length))
          /\ last_comm' = NoComm
    /\ UNCHANGED << image_vars, image_stack, stack_pages, last_drop >>

SetMessageInfo ==
    \E self \in comm_buffer, recipient \in Recipients :
        CommStep("set_message_info", recipient, << >>, set_message_info(self, recipient),
                 << >>, last_comm.sent)

SetMessage ==
    \E self \in comm_buffer, message \in Messages :
        LET result == set_message(self, message)
        IN  CommStep("set_message", << >>, message, result, << >>,
                     IF result.status = COMM_OK THEN message ELSE last_comm.sent)

Reset ==
    \E self \in comm_buffer :
        CommStep("reset", << >>, << >>, CommResult(reset(self), COMM_OK), << >>, << >>)

GetMessage ==
    \E self \in comm_buffer :
        CommStep("get_message", << >>, << >>, CommResult(self, get_message(self).status),
                 get_message(self).message, last_comm.sent)

\* ------------------------------------------------- ExitBootServices hook
RuntimeRecords(s) ==
    { h \in DOMAIN s.pid : s.pid[h].image_type = EFI_IMAGE_SUBSYSTEM_EFI_RUNTIME_DRIVER }

\* the notification resets the pages of every record, whatever its subsystem
EveryRecordFixed(s) == DOMAIN s.attr

\* the records whose pages the notification resets: the runtime drivers
FixedRecords(s) == RuntimeRecords(s)

\* extern "efiapi" fn runtime_image_protection_fixup_ebs.  The records are
\* visited in the order of their handles.  gcd_errors are the records for
\* which core_set_memory_space_attributes returns an error: the error is
\* logged and, in a build with debug assertions, debug_assert!(false) panics;
\* otherwise the loop goes on.  The event is closed at the end.
runtime_image_protection_fixup_ebs(s, gcd_errors, debug_assertions) ==
    LET visited == IF debug_assertions
                   THEN { h \in FixedRecords(s) : \A e \in gcd_errors : h < e }
                   ELSE FixedRecords(s)
        fixed   == visited \ gcd_errors
        a       == [ h \in DOMAIN s.attr \cup fixed |->
                       IF h \in fixed THEN ATTR_CACHE ELSE s.attr[h] ]
    IN  IF debug_assertions /\ gcd_errors # {}
            THEN Result([ s EXCEPT !.attr = a, !.halt = "panic" ], NoRet, {})
        ELSE Result([ s EXCEPT !.attr = a, !.ebs = "closed",
                               !.fx = [ returned |-> TRUE, gcd_errors |-> gcd_errors ] ],
                    NoRet, {})

\* ---------------------------------------------------------------- actions
Init ==
    /\ private_image_data = (DXE_CORE_HANDLE :> DxeCorePrivateImageData)
    /\ current_running_image = None
    /\ image_start_contexts = << >>
    /\ protocols = { Triple(DXE_CORE_HANDLE, LOADED_IMAGE, ImageInfoPtr(DXE_CORE_HANDLE)) }
    /\ pages = { ImagePages(DXE_CORE_HANDLE) }
    /\ runtime_images = {}
    /\ debug_image_info = { DXE_CORE_HANDLE }
    /\ next_handle = DXE_CORE_HANDLE + 1
    /\ memory_attributes = << >>
    /\ ebs_event = "created"
    /\ frames = << >>
    /\ locked = FALSE
    /\ transfers = {}
    /\ halt = "none"
    /\ entry_calls = [ h \in Handles |-> 0 ]
    /\ last_unload = NoUnload
    /\ last_load = NoLoad
    /\ last_fixup = NoFixup
    /\ ret = NoRet
    /\ image_stack = None
    /\ stack_pages = None
    /\ last_drop = NoDrop
    /\ comm_buffer = None
    /\ last_comm = NoComm

\* the step that leaves the machine as r says, with at most `depth` frames
Apply(result, depth) ==
  \E r \in { result } :
    /\ Len(r.s.fr) <= depth
    /\ private_image_data' = r.s.pid
    /\ current_running_image' = r.s.cur
    /\ image_start_contexts' = r.s.ctx
    /\ protocols' = r.s.prot
    /\ pages' = r.s.pg
    /\ runtime_images' = r.s.rt
    /\ debug_image_info' = r.s.dbg
    /\ next_handle' = r.s.nh
    /\ memory_attributes' = r.s.attr
    /\ ebs_event' = r.s.ebs
    /\ frames' = r.s.fr
    /\ halt' = r.s.halt
    /\ entry_calls' = r.s.calls
    /\ last_unload' = r.s.ul
    /\ last_load' = r.s.ld
    /\ last_fixup' = r.s.fx
    /\ ret' = r.ret
    /\ transfers' = r.xfer
    /\ locked' = (\E x \in r.xfer : x.held)
    /\ UNCHANGED << image_stack, stack_pages, last_drop, comm_buffer, last_comm >>

\* core code runs: the machine has not stopped and the mutex is free
Running == halt = "none" /\ ~locked

\* The services are called by whoever has control: the code outside all
\* images (no frame), an entry point or an unload callback.  The handles
\* given are those the protocol database has created and one it has not.
CallHandles(images) ==
    DXE_CORE_HANDLE .. (IF next_handle <= images THEN next_handle ELSE images)

\* ImageStack::new succeeds or fails (asked only if the call is not rejected)
StackOutcomes(h) == IF StartRejected(S, h) THEN { TRUE } ELSE BOOLEAN

LoadImage(inputs, images) ==
    /\ Running
    /\ next_handle <= images
    /\ \E in \in inputs : Apply(load_image(S, in), Len(frames))

StartImage(images, depth) ==
    /\ Running
    /\ \E h \in CallHandles(images), out_ptrs \in BOOLEAN :
        \E stack_ok \in StackOutcomes(h) :
          Apply(start_image(S, h, stack_ok, out_ptrs), depth)

UnloadImage(images, depth) ==
    /\ Running
    /\ \E h \in CallHandles(images) : Apply(unload_image(S, h), depth)

\* exit reads its status and exit data only for the image that is running
\* (one status and no exit data stand for the calls it turns down)
ExitStatuses(h) ==
    IF h \in DOMAIN private_image_data /\ Some(h) = current_running_image
    THEN ImageStatuses ELSE { SUCCESS }

ExitData(h, exit_args) ==
    IF h \in DOMAIN private_image_data /\ Some(h) = current_running_image
    THEN exit_args ELSE { NoExitArgs }

Exit(exit_args, images, depth) ==
    /\ Running
    /\ \E h \in CallHandles(images) :
        \E status \in ExitStatuses(h), args \in ExitData(h, exit_args) :
          \E r \in exit_called(S, h, status, args) : Apply(r, depth)

EntryPointReturn(depth) ==
    /\ Running
    /\ frames # << >> /\ Top(frames).kind = "entry"
    /\ \E status \in ImageStatuses :
          \E r \in entry_point_returned(S, status) : Apply(r, depth)

UnloadCallbackReturn ==
    /\ Running
    /\ frames # << >> /\ Top(frames).kind = "unload"
    /\ \E u \in UnloadStatuses : Apply(UnloadCallbackReturned(S, u), Len(frames))

\* the running image sets the unload callback of its loaded-image protocol
SetUnloadCallback ==
    /\ Running
    /\ frames # << >>
    /\ Top(frames).h \in DOMAIN private_image_data
    /\ ~private_image_data[Top(frames).h].unload
    /\ Apply(Result([ S EXCEPT !.pid = [ @ EXCEPT ![Top(frames).h].unload = TRUE ] ], NoRet, {}),
             Len(frames))

\* The code that has control belongs to an image whose record is gone: its
\* pages are freed and execute-protected.  It may go on running (the
\* protection is best effort), or the machine faults.
CodeOwner == IF frames = << >> THEN DXE_CORE_HANDLE ELSE Top(frames).h

Fault ==
    /\ Running
    /\ CodeOwner \notin DOMAIN private_image_data
    /\ Apply(Result([ S EXCEPT !.halt = "fault" ], NoRet, {}), Len(frames))

NextOf(inputs, exit_args, images, depth) ==
    \/ LoadImage(inputs, images)
    \/ StartImage(images, depth)
    \/ UnloadImage(images, depth)
    \/ Exit(exit_args, images, depth)
    \/ EntryPointReturn(depth)
    \/ UnloadCallbackReturn
    \/ SetUnloadCallback
    \/ Fault

\* images loaded from buffers, started, exited and unloaded
Next == NextOf(BufferLoadInputs, PlainExitArgs, MaxImages, MaxDepth)
Spec == Init /\ [][Next]_vars

\* every input of LoadImage and of Exit
NextLoad == NextOf(LoadInputs, ExitArgs, MaxImages, MaxDepth)
SpecLoad == Init /\ [][NextLoad]_vars

\* images loaded from device paths and buffers, authenticated, and unloaded;
\* loads with every combination of the arguments, of one image more
NextSource ==
    \/ LoadImage(SourceLoadInputs, MaxImages)
    \/ LoadImage(ArgumentLoadInputs, NestImages)
    \/ UnloadImage(MaxImages, MaxDepth)
SpecSource == Init /\ [][NextSource]_vars

\* images with every PE descriptor, loaded and unloaded
NextPe ==
    \/ LoadImage(PeLoadInputs, MaxImages)
    \/ UnloadImage(MaxImages, MaxDepth)
SpecPe == Init /\ [][NextPe]_vars

\* The ExitBootServices event group is signalled: the event created by
\* init_image_support is notified, unless it has been closed.
ExitBootServices ==
    /\ Running
    /\ ebs_event = "created"
    /\ \E gcd_errors \in SUBSET FixedRecords(S), debug_assertions \in BOOLEAN :
          Apply(runtime_image_protection_fixup_ebs(S, gcd_errors, debug_assertions), Len(frames))

\* loads of well-formed images of every subsystem, with protections applied
\* per section or, for an application that is not NX compatible, withdrawn
EbsLoadInputs ==
    { PlainLoad(TRUE, TRUE, FALSE, DXE_CORE_HANDLE, type, NoSource, NoSecurity) :
        type \in ImageTypes }
    \cup
    { [ PlainLoad(TRUE, TRUE, FALSE, DXE_CORE_HANDLE, EFI_IMAGE_SUBSYSTEM_EFI_APPLICATION,
                  NoSource, NoSecurity)
          EXCEPT !.pe.nx_compat = FALSE, !.compat = TRUE ] }

\* images loaded and unloaded before and after ExitBootServices is signalled
NextEbs ==
    \/ LoadImage(EbsLoadInputs, NestImages)
    \/ UnloadImage(NestImages, MaxDepth)
    \/ ExitBootServices
SpecEbs == Init /\ [][NextEbs]_vars

\* loads of an image with a resource section: sources of three chunks and of
\* five (with data after the image), a loaded image of four chunks with the
\* section at chunk 2, and every offset and size within the source
HiiLayouts ==
    { l \in [ image : { [ i \in 1 .. n |-> i ] : n \in { 3, 5 } },
              size_of_headers : { 1 }, pointer_to_raw_data : { 1, 2 },
              size_of_raw_data : { 1 }, virtual_address : { 2 },
              offset : 0 .. 4, size : 1 .. 2, fresh : { 0, 7 } ] :
        /\ l.offset + l.size <= Len(l.image)
        /\ l.pointer_to_raw_data + l.size_of_raw_data <= Len(l.image) }

HiiLoadInputs ==
    { [ PlainLoad(TRUE, TRUE, FALSE, DXE_CORE_HANDLE, EFI_IMAGE_SUBSYSTEM_EFI_BOOT_SERVICE_DRIVER,
                  NoSource, NoSecurity)
          EXCEPT !.hii = TRUE, !.pe.size_of_image = 4 * Chunk, !.layout = l ] :
        l \in HiiLayouts }

\* images with a resource section, loaded and unloaded
NextHii ==
    \/ LoadImage(HiiLoadInputs, NestImages)
    \/ UnloadImage(NestImages, MaxDepth)
SpecHii == Init /\ [][NextHii]_vars

\* loads from a firmware volume and from a file system, with every answer
\* of the security protocols and of read_section
FvLoadInputs ==
    { [ PlainLoad(FALSE, FALSE, FALSE, DXE_CORE_HANDLE, type, src, auth)
          EXCEPT !.read_section_status = status ] :
        type \in ImageTypes, src \in { FvSource, SfsSource }, auth \in AuthAnswers,
        status \in { 0, 1 } }

\* images loaded from firmware volumes, authenticated, and unloaded
NextFv ==
    \/ LoadImage(FvLoadInputs, NestImages)
    \/ UnloadImage(NestImages, MaxDepth)
SpecFv == Init /\ [][NextFv]_vars

\* loads of an image with a section of every combination of the
\* characteristics, on a range with and without a descriptor and with every
\* combination of an access bit, another access bit and a cache bit
SectionLoadInputs ==
    { [ PlainLoad(TRUE, TRUE, FALSE, DXE_CORE_HANDLE, EFI_IMAGE_SUBSYSTEM_EFI_BOOT_SERVICE_DRIVER,
                  NoSource, NoSecurity)
          EXCEPT !.section = [ characteristics |-> c, descriptor |-> d, attributes |-> a ] ] :
        c \in SUBSET SectionCharacteristics, d \in BOOLEAN,
        a \in SUBSET { "MEMORY_XP", "MEMORY_RP", "MEMORY_WB" } }

\* images with every kind of section, loaded and unloaded
NextSections ==
    \/ LoadImage(SectionLoadInputs, MaxImages)
    \/ UnloadImage(MaxImages, MaxDepth)
SpecSections == Init /\ [][NextSections]_vars

\* loads of well-formed images of every subsystem, NX compatible or not,
\* with and without a resource section, in either build
CompatLoadInputs ==
    { [ PlainLoad(TRUE, TRUE, FALSE, DXE_CORE_HANDLE, type, NoSource, NoSecurity)
          EXCEPT !.pe.nx_compat = nx, !.hii = hii, !.compat = compat ] :
        type \in ImageTypes, nx \in BOOLEAN, hii \in BOOLEAN, compat \in BOOLEAN }

\* images that are and are not NX compatible, loaded and unloaded
NextCompat ==
    \/ LoadImage(CompatLoadInputs, NestImages)
    \/ UnloadImage(NestImages, MaxDepth)
SpecCompat == Init /\ [][NextCompat]_vars

\* image sizes and section alignments the loader accepts, among them the
\* largest sizes a usize holds, and the addresses the allocator returns
AllocDescriptors ==
    UNION { { [ PlainPe EXCEPT !.section_alignment = a, !.size_of_image = z ] :
                z \in { a, 2 * a, ((2 ^ UsizeBits) \div a) * a - a,
                        ((2 ^ UsizeBits) \div a) * a - 2 * a } } :
            a \in { k * UEFI_PAGE_SIZE : k \in 1 .. 4 } }

AllocLoadInputs ==
    { [ PlainLoad(TRUE, TRUE, FALSE, DXE_CORE_HANDLE, EFI_IMAGE_SUBSYSTEM_EFI_BOOT_SERVICE_DRIVER,
                  NoSource, NoSecurity)
          EXCEPT !.pe = pe, !.base = k * UEFI_PAGE_SIZE ] :
        pe \in AllocDescriptors, k \in 1 .. 5 }

\* images of every size and alignment, loaded and unloaded
NextAlloc ==
    \/ LoadImage(AllocLoadInputs, NestImages)
    \/ UnloadImage(NestImages, MaxDepth)
SpecAlloc == Init /\ [][NextAlloc]_vars

\* image stacks made and dropped
NextStack == ImageStackNew \/ ImageStackDrop
SpecStack == Init /\ [][NextStack]_vars

\* a communicate buffer is made, written, read and reset
NextComm ==
    \/ CommunicateBufferNew
    \/ SetMessageInfo
    \/ SetMessage
    \/ Reset
    \/ GetMessage
SpecComm == Init /\ [][NextComm]_vars

\* images that load and start images
NextNested == NextOf(BufferLoadInputs, PlainExitArgs, NestImages, NestDepth)
SpecNested == Init /\ [][NextNested]_vars

\* ------------------------------------------------------------- properties
\* a StartImage call has just returned
StartReturned == ret.op = "StartImage"

\* C1: in every state in which control is in image code or outside all
\* image-service calls, current_running_image is Some(h) if and only if
\* image_start_contexts is not empty, and the top of image_start_contexts is
\* the yielder pushed by the StartImage call for h.
C1_RunningImageOwnsTopContext ==
    halt = "none" =>
        /\ (current_running_image # None) <=> (image_start_contexts # << >>)
        /\ \A h \in current_running_image :
              image_start_contexts # << >> /\ Top(image_start_contexts) = h

\* C2: when a StartImage call returns, whatever the image did while its entry
\* point ran, current_running_image and image_start_contexts are what they
\* were immediately before the call.
C2_StartImageRestoresContexts ==
    (halt = "none" /\ StartReturned) =>
        /\ current_running_image = ret.gh.pre_cur
        /\ image_start_contexts = ret.gh.pre_ctx

\* C3: image A's entry point has called StartImage(B) and B's entry point
\* runs.  When B calls Exit(B, s), the call does not return to B: StartImage(B)
\* returns s to A, only B's context is removed from image_start_contexts, A's
\* context is the top again and current_running_image is A.
NestedEntryPoints ==
    /\ halt = "none"
    /\ Len(frames) >= 2
    /\ frames[Len(frames)].kind = "entry"
    /\ frames[Len(frames) - 1].kind = "entry"

C3_NestedExitReturnsToOuterImage ==
    [][ NestedEntryPoints =>
          LET B == frames[Len(frames)].h
              A == frames[Len(frames) - 1].h
          IN  /\ ~(ret'.op = "Exit" /\ ret'.h = B)
              /\ (ret'.op = "StartImage" /\ ret'.h = B /\ frames' = Pop(frames)) =>
                    /\ Some(ret'.status) = ret'.gh.given
                    /\ image_start_contexts # << >>
                    /\ Top(image_start_contexts) = B
                    /\ image_start_contexts' = Pop(image_start_contexts)
                    /\ image_start_contexts' # << >>
                    /\ Top(image_start_contexts') = A
                    /\ current_running_image' = Some(A) ]_vars

\* C4: a StartImage call on a loaded, not yet started handle whose stack
\* allocation succeeded calls the entry point exactly once before it returns,
\* and returns the status the entry point returned or passed to Exit.
StartedFresh ==
    /\ StartReturned
    /\ ret.gh.was_loaded /\ ~ret.gh.was_started /\ ret.gh.stack_ok

C4_StartImageRunsEntryOnceAndReturnsItsStatus ==
    StartedFresh =>
        /\ entry_calls[ret.h] = ret.gh.calls_before + 1
        /\ ret.gh.given = Some(ret.status)

C4_Witness ==
    /\ StartedFresh
    /\ halt = "none"
    /\ ret.status = ABORTED
    /\ entry_calls[ret.h] = 1

\* C5: the started flag of a record never goes from true back to false, and a
\* StartImage call on a handle whose record is already started returns
\* INVALID_PARAMETER without calling the entry point again.
C5_StartedIsMonotonicAndSecondStartRejected ==
    [][ /\ \A h \in (DOMAIN private_image_data) \cap (DOMAIN private_image_data') :
              private_image_data[h].started => private_image_data'[h].started
        /\ (ret'.op = "StartImage" /\ ret'.gh.was_started) =>
              /\ ret'.status = INVALID_PARAMETER
              /\ entry_calls'[ret'.h] = ret'.gh.calls_before ]_vars

C5_Witness ==
    /\ StartReturned /\ ret.gh.was_started
    /\ halt = "none"
    /\ ret.h # DXE_CORE_HANDLE
    /\ ret.h \in DOMAIN private_image_data
    /\ private_image_data[ret.h].started
    /\ ret.status = INVALID_PARAMETER
    /\ entry_calls[ret.h] = 1

\* C6: whenever StartImage returns an error status for a loaded handle, the
\* image has been unloaded: its record is absent from the registry when
\* StartImage returns.
C6_FailedStartImageUnloads ==
    (halt = "none" /\ StartReturned /\ ret.gh.was_loaded /\ ret.status # SUCCESS) =>
        ret.h \notin DOMAIN private_image_data

\* C7: when an application's entry point completes with SUCCESS, StartImage
\* returns SUCCESS and the record is gone from the registry; when a
\* boot-service or runtime driver's entry point completes with SUCCESS, its
\* record remains in the registry with started = true.
EntryCompletedWithSuccess ==
    halt = "none" /\ StartReturned /\ ret.gh.given = Some(SUCCESS)

C7_ApplicationUnloadedDriverStays ==
    EntryCompletedWithSuccess =>
        /\ (ret.gh.type = Some(EFI_IMAGE_SUBSYSTEM_EFI_APPLICATION)) =>
              /\ ret.status = SUCCESS
              /\ ret.h \notin DOMAIN private_image_data
        /\ (ret.gh.type \in { Some(EFI_IMAGE_SUBSYSTEM_EFI_BOOT_SERVICE_DRIVER),
                              Some(EFI_IMAGE_SUBSYSTEM_EFI_RUNTIME_DRIVER) }) =>
              /\ ret.h \in DOMAIN private_image_data
              /\ private_image_data[ret.h].started

\* C8: after UnloadImage(h) returns SUCCESS, h is absent from the registry,
\* no LoadedImage and no LoadedImageDevicePath interface is installed on h
\* (whether the image was loaded with a null or a non-null device path), and
\* the image pages and the HII pages of the record are freed.
C8_UnloadImageReleasesEverything ==
    (halt = "none" /\ ret.op = "UnloadImage" /\ ret.status = SUCCESS) =>
        /\ ret.h \notin DOMAIN private_image_data
        /\ get_interface_for_handle(protocols, ret.h, LOADED_IMAGE) = {}
        /\ get_interface_for_handle(protocols, ret.h, LOADED_IMAGE_DEVICE_PATH) = {}
        /\ ImagePages(ret.h) \notin pages
        /\ HiiPages(ret.h) \notin pages

\* C9: between completed image-service calls (those that returned an error
\* included), a handle has a record in the registry if and only if a
\* LoadedImage interface installed by the image services is on that handle;
\* there is exactly one, and its pointer is the record's image_info_ptr.
C9_RecordIffLoadedImageInstalled ==
    halt = "none" =>
        \A h \in Handles :
            LET installed == get_interface_for_handle(protocols, h, LOADED_IMAGE)
            IN  /\ (h \in DOMAIN private_image_data) <=> (installed # {})
                /\ (h \in DOMAIN private_image_data) =>
                      installed = { private_image_data[h].image_info_ptr }

\* C10: PRIVATE_IMAGE_DATA is not held when control is handed to image code or
\* across a stack switch: at the call of an entry point, at coroutine.resume,
\* at yielder.suspend and at the call of an unload callback.
C10_LockFreeAtEveryTransfer ==
    /\ \A x \in transfers : ~x.held
    /\ ~locked

C10_Witness ==
    /\ halt = "none"
    /\ { x.at : x \in transfers } = { "suspend", "unload_callback" }
    /\ frames # << >> /\ Top(frames).kind = "unload"
    /\ entry_calls[Top(frames).h] = 1


\* a core_unload_image call on a handle with a record has just finished
UnloadDecided == last_unload.op = "unload" /\ last_unload.had_record

\* the unload went through: it gave Ok and the record is out of the registry
UnloadProceeded == last_unload.result.ok /\ last_unload.h \notin DOMAIN private_image_data

\* C11: an unload of a handle with a record follows the decision table.  Not
\* started: the callback is not invoked and the unload proceeds.  Started with
\* a callback: the callback is invoked once, and its non-SUCCESS status is the
\* result (the status UnloadImage returns) and the record stays.  Started,
\* no callback, not forced: Unsupported and the record stays.  Started, no
\* callback, forced: the unload proceeds and the handle has neither its
\* LoadedImage nor its LoadedImageDevicePath installation left.
C11_UnloadDecisionTable ==
    UnloadDecided =>
        LET u == last_unload
        IN  /\ ~u.started => u.invoked = 0 /\ UnloadProceeded
            /\ u.started /\ u.callback =>
                 /\ u.invoked = 1
                 /\ ~u.result.ok =>
                      /\ u.h \in DOMAIN private_image_data
                      /\ ret.op = "UnloadImage" => ret.status = u.result.err
            /\ u.started /\ ~u.callback /\ ~u.force =>
                 /\ u.result = Err(UNSUPPORTED)
                 /\ u.h \in DOMAIN private_image_data
            /\ u.started /\ ~u.callback /\ u.force =>
                 /\ UnloadProceeded
                 /\ \A t \in protocols :
                      t.handle = u.h => t.guid \notin { LOADED_IMAGE, LOADED_IMAGE_DEVICE_PATH }

\* an Exit call has just returned to its caller
ExitReturned == ret.op = "Exit"

\* C12: Exit on a handle whose record is not started unloads the image with
\* force = true and returns SUCCESS, or InvalidParameter if the unload fails;
\* Exit on a handle without a record returns InvalidParameter.  Neither pops a
\* yielder nor changes current_running_image.
C12_ExitOfNotStartedImageUnloads ==
    ExitReturned /\ ~ret.gh.was_started =>
        /\ image_start_contexts = ret.gh.pre_ctx
        /\ current_running_image = ret.gh.pre_cur
        /\ ~ret.gh.was_loaded => ret.status = INVALID_PARAMETER /\ last_unload = NoUnload
        /\ ret.gh.was_loaded =>
             /\ last_unload.op = "unload" /\ last_unload.h = ret.h /\ last_unload.force
             /\ ret.status = IF last_unload.result.ok THEN SUCCESS ELSE INVALID_PARAMETER
             /\ last_unload.result.ok => ret.h \notin DOMAIN private_image_data

C12_Witness ==
    /\ ExitReturned /\ ret.gh.was_loaded /\ ~ret.gh.was_started
    /\ ret.status = SUCCESS
    /\ ret.h \notin DOMAIN private_image_data
    /\ last_unload.force /\ last_unload.invoked = 0

C14_ExitOfRunningImageNeverReturns ==
    /\ ExitReturned =>
         /\ ~( ret.gh.was_started /\ ret.gh.pre_cur = Some(ret.h) )
         /\ ret.status # ACCESS_DENIED
    /\ StartReturned => ~ret.gh.exit_returned

\* the running image called Exit and control came back in its StartImage
C14_Witness ==
    /\ StartReturned /\ ret.gh.suspended_by = "current"
    /\ ret.gh.given = Some(ret.status)
    /\ \E x \in transfers : x.at = "suspend"

\* the exit data (non-zero size, non-null pointer) of the Exit call that
\* ended the StartImage call just returned, if that StartImage call was made
\* with out-pointers
ExitDataGiven == ret.gh.exit_data

ImageObtained == last_load.op = "load" /\ last_load.image # "none"

SecurityCallsOf(fn) ==
    { i \in 1 .. Len(last_load.security_calls) : last_load.security_calls[i].fn = fn }

\* C17: authenticate_image calls the security protocols by the table.  With
\* Security2 installed, file_authentication is called once, first, with the
\* device path, the image and boot_policy; file_authentication_state of
\* Security is called after it at most once, and only if Security2 gave
\* SUCCESS and from_fv is true.  With only Security installed, its
\* file_authentication_state is the one call.  With neither, no call is made
\* and the result is success.  An image from a caller's buffer has from_fv
\* false and authentication_status 0.
C17_AuthenticationCallTable ==
    ImageObtained =>
        LET l      == last_load
            calls  == l.security_calls
            first  == [ fn |-> "file_authentication", device_path |-> l.device_path,
                        image |-> l.image, boot_policy |-> l.boot_policy ]
            state  == [ fn |-> "file_authentication_state",
                        authentication_status |-> l.authentication_status,
                        device_path |-> l.device_path ]
        IN  /\ l.auth.security2 # "absent" =>
                 /\ Len(calls) >= 1 /\ calls[1] = first
                 /\ SecurityCallsOf("file_authentication") = { 1 }
                 /\ SecurityCallsOf("file_authentication_state") \in { {}, { 2 } }
                 /\ SecurityCallsOf("file_authentication_state") # {} =>
                      /\ l.auth.security2 = SUCCESS /\ l.from_fv
                      /\ calls[2] = state
                 /\ ( l.auth.security2 = SUCCESS /\ l.from_fv /\ l.auth.security # "absent" ) =>
                      SecurityCallsOf("file_authentication_state") = { 2 }
            /\ ( l.auth.security2 = "absent" /\ l.auth.security # "absent" ) =>
                 calls = << state >>
            /\ ( l.auth.security2 = "absent" /\ l.auth.security = "absent" ) =>
                 calls = << >> /\ l.authenticated /\ l.security_status = SUCCESS
            /\ l.has_image => ~l.from_fv /\ l.authentication_status = 0

\* both protocols called for an image from a firmware volume
C17_Witness ==
    /\ ImageObtained /\ last_load.from_fv
    /\ Len(last_load.security_calls) = 2
    /\ last_load.auth.security2 = SUCCESS

\* C18: whichever of Security and Security2 are installed, whatever from_fv
\* and the result of Security2 are, authenticate_image returns a status and
\* does not panic.
C18_AbsentSecurityProtocolsAreNoError ==
    ImageObtained => last_load.authenticated /\ halt # "panic"

\* the sources in the order of get_buffer_by_file_path under the boot policy
\* of the last load
SourceOrder ==
    IF last_load.boot_policy THEN << "fv", "sfs", "lf" >> ELSE << "fv", "sfs", "lf2", "lf" >>

\* the source gives the file
SourceSucceeds(x) ==
    IF x = "fv" THEN last_load.src.fv
    ELSE IF x = "sfs" THEN last_load.src.sfs
    ELSE IF x = "lf2" THEN last_load.src.lf2 = "read"
    ELSE last_load.src.lf = "read"

\* the positions in SourceOrder of the sources that give the file
Succeeding == { i \in 1 .. Len(SourceOrder) : SourceSucceeds(SourceOrder[i]) }

\* LoadImage was given a device path and no buffer, and looked for the image
LoadedByPath == last_load.op = "load" /\ ~last_load.has_image

SizeAnsweredSuccess ==
    { last_load.load_file_calls[i].protocol : i \in DOMAIN last_load.load_file_calls }
    \cap ( ( IF last_load.src.lf2 = "size_success" THEN { LOAD_FILE2 } ELSE {} )
           \cup ( IF last_load.src.lf = "size_success" THEN { LOAD_FILE } ELSE {} ) )

\* C20: a load-file protocol that answers the size query with SUCCESS is not
\* called a second time, and LoadImage returns DeviceError.
C20_SizeQuerySuccessSurfacesDeviceError ==
    LoadedByPath /\ SizeAnsweredSuccess # {} =>
        /\ \A i \in DOMAIN last_load.load_file_calls :
             last_load.load_file_calls[i].protocol \in SizeAnsweredSuccess =>
                 last_load.load_file_calls[i].buffer = "null"
        /\ ret.op = "LoadImage" /\ ret.status = DEVICE_ERROR

\* the statuses that are errors
ErrorStatuses == { INVALID_PARAMETER, UNSUPPORTED, LOAD_ERROR, OUT_OF_RESOURCES,
                   NOT_FOUND, ACCESS_DENIED, ABORTED, DEVICE_ERROR, BUFFER_TOO_SMALL }

\* the statuses with which the LoadImage call of the step is to be rejected
\* (none if its arguments are valid); the parent is looked up in the state
\* the call is made in
LoadRejection ==
    LET l == last_load'
    IN  IF l.out_null THEN Some(INVALID_PARAMETER)
        ELSE IF l.has_image /\ l.size_zero THEN Some(LOAD_ERROR)
        ELSE IF ~l.has_image /\ l.path_null THEN Some(INVALID_PARAMETER)
        ELSE IF \A t \in protocols : t.handle # l.parent THEN ErrorStatuses
        ELSE IF \A t \in protocols : ~(t.handle = l.parent /\ t.guid = LOADED_IMAGE)
            THEN Some(INVALID_PARAMETER)
        ELSE None

\* C21: LoadImage rejects invalid inputs and changes nothing.  A null
\* image_handle gives INVALID_PARAMETER whatever the other arguments are; a
\* buffer of size 0 gives LOAD_ERROR; no buffer and no device path gives
\* INVALID_PARAMETER; a parent that is no handle is rejected; a parent
\* without LoadedImage gives INVALID_PARAMETER.  The registry, the protocol
\* database (so the handles), the pages, the runtime and the debug
\* registrations stay as they are.
C21_LoadImageRejectsInvalidInputs ==
    [][ ( last_load'.op # "none" /\ LoadRejection # None ) =>
            /\ ret'.op = "LoadImage" /\ ret'.status \in LoadRejection
            /\ UNCHANGED << private_image_data, protocols, pages, next_handle,
                            runtime_images, debug_image_info >> ]_vars

\* a load rejected for its parent, which is a handle without LoadedImage
C21_Witness ==
    /\ last_load.op = "call" /\ ret.op = "LoadImage" /\ ret.status = INVALID_PARAMETER
    /\ ~last_load.out_null /\ last_load.has_image /\ ~last_load.size_zero
    /\ \E t \in protocols : t.handle = last_load.parent
    /\ \A t \in protocols : ~(t.handle = last_load.parent /\ t.guid = LOADED_IMAGE)
\* the LoadImage call of the step got as far as core_load_pe_image
PeLoaded == last_load.op = "load" /\ last_load.image # "none" /\ last_load.authenticated

C23_FailedPeLoadReleasesEverything ==
    [][ last_load'.pe_failed =>
            /\ ret'.op = "LoadImage" /\ ret'.status # SUCCESS
            /\ UNCHANGED << next_handle, protocols, private_image_data, pages >> ]_vars
\* C24: whenever the image pages of a record are freed (by UnloadImage, by
\* the unload StartImage or Exit makes, or when a LoadImage fails after the
\* section protections were applied and drops the record it was building),
\* their attributes are XP only at that moment: the protections were
\* withdrawn before.
C24_ProtectionsWithdrawnBeforePagesFreed ==
    /\ last_unload.freed_attr \in { "none", ATTR_XP }
    /\ last_load.freed_attr \in { "none", ATTR_XP }
\* the place of step e among the steps of the last unload (0: not taken)
StepOfUnload(e) ==
    LET at == { i \in DOMAIN last_unload.steps : last_unload.steps[i] = e }
    IN  IF at = {} THEN 0 ELSE CHOOSE i \in at : TRUE

\* e was taken, and before f if f was taken
UnloadStepBefore(e, f) ==
    /\ StepOfUnload(e) > 0
    /\ StepOfUnload(f) > 0 => StepOfUnload(e) < StepOfUnload(f)

\* core_unload_image removed a record in the last step
RecordReleased == last_unload.op = "unload" /\ last_unload.steps # << >>

StepOfLoad(e) ==
    LET at == { i \in DOMAIN last_load.steps : last_load.steps[i] = e }
    IN  IF at = {} THEN 0 ELSE CHOOSE i \in at : TRUE

\* the LoadImage call of the last step notified the debugger
DebuggerNotified == last_load.op = "load" /\ StepOfLoad("notify_module_load") > 0

\* C26 as stated: when the debugger is notified of the load, the
\* debug-image-info entry is registered and, for a runtime driver, the
\* image is registered with the runtime module.
C26_RegisteredBeforeDebuggerNotified ==
    DebuggerNotified =>
        /\ StepOfLoad("new_debug_image_info_entry") > 0
        /\ StepOfLoad("new_debug_image_info_entry") < StepOfLoad("notify_module_load")
        /\ last_load.type = EFI_IMAGE_SUBSYSTEM_EFI_RUNTIME_DRIVER =>
              /\ StepOfLoad("add_runtime_image") > 0
              /\ StepOfLoad("add_runtime_image") < StepOfLoad("notify_module_load")

\* C26, amended: the debug-image-info entry is registered before the
\* debugger is notified; the runtime registration of a runtime driver, if
\* the load gets to it, is made after the notification, and only a runtime
\* driver is registered.
C26_DebugEntryBeforeNotificationRuntimeAfter ==
    /\ DebuggerNotified =>
          /\ StepOfLoad("new_debug_image_info_entry") > 0
          /\ StepOfLoad("new_debug_image_info_entry") < StepOfLoad("notify_module_load")
    /\ StepOfLoad("add_runtime_image") > 0 =>
          /\ last_load.type = EFI_IMAGE_SUBSYSTEM_EFI_RUNTIME_DRIVER
          /\ DebuggerNotified
          /\ StepOfLoad("notify_module_load") < StepOfLoad("add_runtime_image")

\* a runtime driver is loaded and registered
C26_Witness ==
    /\ DebuggerNotified /\ ret.op = "LoadImage" /\ ret.status = SUCCESS
    /\ StepOfLoad("add_runtime_image") > 0
    /\ ret.h \in runtime_images /\ ret.h \in debug_image_info
\* C27: between completed image-service calls (those that returned an error
\* included) the handles registered with the runtime module are the handles
\* of the registry whose record is a runtime driver, the DXE core's own
\* record excepted.
C27_RuntimeRegistryMatchesRuntimeRecords ==
    halt = "none" =>
        runtime_images =
            { h \in DOMAIN private_image_data \ { DXE_CORE_HANDLE } :
                private_image_data[h].image_type = EFI_IMAGE_SUBSYSTEM_EFI_RUNTIME_DRIVER }
PageOwners(p) ==
    IF p.kind = "image" THEN { << "record", h >> : h \in DOMAIN private_image_data \cap { p.h } }
    ELSE IF p.kind = "hii"
        THEN { << "record", h >> :
                 h \in { g \in DOMAIN private_image_data \cap { p.h } : private_image_data[g].hii } }
    ELSE IF p.kind = "stack"
        THEN { << "stack", i >> :
                 i \in { j \in DOMAIN frames : frames[j].kind = "entry" /\ frames[j].h = p.h } }
    ELSE {}

\* C29: after any sequence of image-service calls every allocated page range
\* is owned by exactly one live record or one ImageStack.
C29_EveryPageRangeOwnedOnce ==
    halt = "none" => \A p \in pages : Cardinality(PageOwners(p)) = 1
\* C30: when the PE has a resource section reported at (offset, size), the
\* record's HII resource section has length size and its bytes are those of
\* the source image from offset to offset + size.
C30_ResourceSectionEqualsSourceSlice ==
    (PeLoaded /\ last_load.hii /\ ret.op = "LoadImage" /\ ret.status = SUCCESS) =>
        LET section == private_image_data[ret.h].hii_resource_section
            layout  == last_load.layout
        IN  /\ Len(section) = layout.size
            /\ section = SubSeq(layout.image, layout.offset + 1, layout.offset + layout.size)
\* C31: for every record LoadImage created, image_device_path_ptr is the
\* interface installed for LoadedImageDevicePath on the handle, for a null
\* and for a non-null device path alike.
C31_StoredDevicePathPtrIsInstalledInterface ==
    halt = "none" =>
        \A h \in DOMAIN private_image_data \ { DXE_CORE_HANDLE } :
            get_interface_for_handle(protocols, h, LOADED_IMAGE_DEVICE_PATH)
                = { private_image_data[h].image_device_path_ptr }
\* C32: a StartImage call rejected with INVALID_PARAMETER because the
\* handle's record is already started changes nothing: the record stays in
\* the registry, its unload callback is not invoked, its protocols stay
\* installed and its pages are not freed.
C32_RejectedStartOfStartedImageChangesNothing ==
    [][ ( /\ ret'.op = "StartImage" /\ ret'.status = INVALID_PARAMETER
          /\ ret'.gh.was_loaded /\ ret'.gh.was_started )
        => /\ private_image_data' = private_image_data
           /\ protocols' = protocols
           /\ pages' = pages
           /\ last_unload'.invoked = 0 ]_vars
\* the protocols core_load_image installs on the handle of an image
LoadInstalledGuids == { LOADED_IMAGE, LOADED_IMAGE_DEVICE_PATH, HII_PACKAGE_LIST }

\* C33: after UnloadImage(h) has returned SUCCESS none of the interfaces
\* LoadImage installed on h (LoadedImage, LoadedImageDevicePath, the HII
\* package list) is installed on h any more: no installed interface points
\* into memory the unload released.
C33_NoLoadInstalledInterfaceAfterUnload ==
    (halt = "none" /\ ret.op = "UnloadImage" /\ ret.status = SUCCESS) =>
        \A t \in protocols : ~(t.handle = ret.h /\ t.guid \in LoadInstalledGuids)
\* the LoadImage call of the step returned an error after it had installed
\* LoadedImage on a new handle (the handle before next_handle); a load that
\* returns the handle with the status of the authentication is no failure
LoadFailedAfterInstall ==
    /\ halt = "none" /\ ret.op = "LoadImage" /\ ret.status # SUCCESS
    /\ last_load.op = "load" /\ last_load.steps # << >>
    /\ (next_handle - 1) \notin DOMAIN private_image_data

\* C34: if LoadImage returns an error after it installed LoadedImage on a
\* new handle, no LoadedImage interface, debug-image-info entry or runtime
\* registration made by that call remains.
C34_FailedLoadLeavesNoRegistration ==
    LoadFailedAfterInstall =>
        LET h == next_handle - 1
        IN  /\ get_interface_for_handle(protocols, h, LOADED_IMAGE) = {}
            /\ h \notin debug_image_info
            /\ h \notin runtime_images
\* C35: when the image bytes come from a firmware volume, the
\* authentication_status handed to file_authentication_state of Security is
\* the one read_section of the firmware volume reported for the file.
C35_ReadSectionStatusReachesSecurity ==
    (ImageObtained /\ last_load.from_fv) =>
        \A i \in SecurityCallsOf("file_authentication_state") :
            last_load.security_calls[i].authentication_status = last_load.read_section_status
\* C36: for every combination of CNT_CODE, MEM_READ and MEM_WRITE the
\* attributes written for a section have XP if and only if CNT_CODE is
\* clear, RO if and only if CNT_CODE is set or MEM_READ is set and MEM_WRITE
\* clear, no other access bit, and beside them the bits the range had
\* before that are no access bits.
C36_SectionAttributesByCharacteristics ==
    (PeLoaded /\ last_load.written # None) =>
        LET c == last_load.section.characteristics
            w == CHOOSE x \in last_load.written : TRUE
            xp == "IMAGE_SCN_CNT_CODE" \notin c
            ro == \/ "IMAGE_SCN_CNT_CODE" \in c
                  \/ "IMAGE_SCN_MEM_READ" \in c /\ "IMAGE_SCN_MEM_WRITE" \notin c
        IN  /\ ("MEMORY_XP" \in w) <=> xp
            /\ ("MEMORY_RO" \in w) <=> ro
            /\ w = (IF xp THEN { "MEMORY_XP" } ELSE {}) \cup (IF ro THEN { "MEMORY_RO" } ELSE {})
                     \cup (last_load.section.attributes \ MEMORY_ACCESS_MASK)

\* a data section that is read-only got XP and RO on a range that had XP and
\* a cache bit
C36_Witness ==
    /\ PeLoaded /\ ret.op = "LoadImage" /\ ret.status = SUCCESS
    /\ last_load.section.characteristics = { "IMAGE_SCN_MEM_READ" }
    /\ last_load.section.attributes = { "MEMORY_XP", "MEMORY_WB" }
    /\ last_load.written = Some({ "MEMORY_XP", "MEMORY_RO", "MEMORY_WB" })
\* C37: in a build where compatibility mode is forbidden, a load that gets
\* to the end of core_load_pe_image fails there, with LOAD_ERROR and its
\* pages released, exactly if the image is an application that is not NX
\* compatible; every other image (a driver whatever its NX flag, an NX
\* compatible application) gets the per-section protections, and
\* compatibility mode is never activated.
C37_ForbiddenCompatibilityMode ==
    (PeLoaded /\ ~last_load.compat /\ last_load.mode # "none") =>
        LET denied == last_load.mode = "denied" IN
        /\ denied <=> ( /\ last_load.type = EFI_IMAGE_SUBSYSTEM_EFI_APPLICATION
                        /\ ~last_load.pe.nx_compat )
        /\ denied =>
              /\ ret.op = "LoadImage" /\ ret.status = LOAD_ERROR
              /\ next_handle \notin DOMAIN private_image_data
              /\ ImagePages(next_handle) \notin pages
              /\ HiiPages(next_handle) \notin pages
              /\ next_handle \notin DOMAIN memory_attributes
        /\ ~denied =>
              /\ last_load.mode = "protected"
              /\ ret.status = SUCCESS =>
                    memory_attributes[ret.h] = ATTR_SECTIONS

\* in the forbidden build, the load of an application with a resource
\* section that is not NX compatible was denied
C37_Witness ==
    /\ PeLoaded /\ ~last_load.compat /\ last_load.mode = "denied"
    /\ last_load.hii /\ ret.status = LOAD_ERROR
\* the load got to PrivateImageData::new: the PE parsed and its descriptor
\* was accepted
AllocationReached == PeLoaded /\ PeValidation(last_load.type, last_load.pe).ok

\* C38: for every image size and section alignment the loader accepts, the
\* pages allocated are ceil((image_size + section_alignment) / page_size) if
\* the alignment is greater than a page and ceil(image_size / page_size) if
\* not; the image buffer, image_size bytes from the allocation's address
\* aligned up to the section alignment, lies inside the allocated range; if
\* image_size + section_alignment does not fit, the load gives LOAD_ERROR.
C38_PagesAllocatedHoldAlignedImage ==
    AllocationReached =>
        LET size      == last_load.pe.size_of_image
            alignment == last_load.pe.section_alignment
            needed    == IF alignment > UEFI_PAGE_SIZE THEN size + alignment ELSE size
            a         == last_load.alloc
        IN  IF needed >= 2 ^ UsizeBits
                THEN ret.op = "LoadImage" /\ ret.status = LOAD_ERROR /\ a.num_pages = 0
            ELSE /\ a.num_pages * UEFI_PAGE_SIZE >= needed
                 /\ (a.num_pages - 1) * UEFI_PAGE_SIZE < needed
                 /\ a.image_buffer % alignment = 0
                 /\ a.image_base_page <= a.image_buffer
                 /\ a.image_buffer + size <= a.image_base_page + a.num_pages * UEFI_PAGE_SIZE

\* an image was loaded whose alignment is greater than a page, at an address
\* that had to be aligned up
C38_Witness ==
    /\ AllocationReached /\ ret.op = "LoadImage" /\ ret.status = SUCCESS
    /\ last_load.pe.section_alignment > UEFI_PAGE_SIZE
    /\ last_load.alloc.image_buffer > last_load.alloc.image_base_page
    /\ last_load.alloc.num_pages * UEFI_PAGE_SIZE
          = last_load.pe.size_of_image + last_load.pe.section_alignment
\* a load whose image size and alignment do not fit a usize together
C38_OverflowWitness ==
    /\ AllocationReached /\ ret.op = "LoadImage" /\ ret.status = LOAD_ERROR
    /\ last_load.pe.section_alignment > UEFI_PAGE_SIZE
    /\ last_load.pe.size_of_image + last_load.pe.section_alignment >= 2 ^ UsizeBits
\* the layout of the ImageStack that exists: one page at the lowest address
\* of its allocation, then the usable range, whose length is the size asked
\* for, at least the minimum, aligned up to the stack alignment
StackLayout ==
    \A self \in image_stack : \A mem \in stack_pages :
        /\ self.stack = mem.base + UEFI_PAGE_SIZE
        /\ self.len >= self.size /\ self.len >= MIN_STACK_SIZE
        /\ self.len % STACK_ALIGNMENT = 0
        /\ self.len - STACK_ALIGNMENT < (IF self.size > MIN_STACK_SIZE THEN self.size
                                         ELSE MIN_STACK_SIZE)
        /\ self.allocated_pages = mem.pages
        /\ mem.pages = uefi_size_to_pages(self.len) + 1
        /\ self.stack + self.len <= mem.base + mem.pages * UEFI_PAGE_SIZE

\* the pages freed by the drop are the pages that were allocated
FreedWhatWasAllocated == last_drop.dropped => last_drop.freed = last_drop.allocated

\* C39 (as stated): every image stack is one guard page at the lowest address
\* of its allocation and then the usable range, one page above the base, of
\* length align_up(max(requested, minimum), alignment); when it is dropped,
\* the pages are freed with the guard page back to XP, its cache bits
\* preserved, and the base and page count freed are those allocated.
C39_GuardRestoredToXpBeforeFree ==
    /\ StackLayout
    /\ FreedWhatWasAllocated
    /\ last_drop.dropped =>
          /\ "MEMORY_XP" \in last_drop.guard
          /\ "MEMORY_RP" \notin last_drop.guard
          /\ last_drop.guard \cap CACHE_ATTRIBUTE_MASK = last_drop.before \cap CACHE_ATTRIBUTE_MASK

\* C39 (amended): the layout and the pages freed are as stated; the guard
\* page is back to XP when the pages are freed if the GCD accepted the
\* change, with the cache bits of its descriptor, or the default cache
\* attribute if the GCD does not find the page; if the GCD refused the
\* change, the pages are freed with the guard page's attributes as they were.
C39_GuardRestoredIfGcdAccepts ==
    /\ StackLayout
    /\ FreedWhatWasAllocated
    /\ last_drop.dropped =>
          IF last_drop.set_ok
              THEN /\ "MEMORY_XP" \in last_drop.guard
                   /\ "MEMORY_RP" \notin last_drop.guard
                   /\ last_drop.guard \cap CACHE_ATTRIBUTE_MASK =
                        IF last_drop.descriptor THEN last_drop.before \cap CACHE_ATTRIBUTE_MASK
                        ELSE DEFAULT_CACHE_ATTR
          ELSE last_drop.guard = last_drop.before

\* a stack of the size core_start_image asks for, whose guard page was read
\* protected and uncached, was dropped and the GCD accepted the change
C39_Witness ==
    /\ last_drop.dropped /\ last_drop.set_ok /\ last_drop.descriptor
    /\ "MEMORY_RP" \in last_drop.before /\ "MEMORY_UC" \in last_drop.before
    /\ last_drop.freed.pages = uefi_size_to_pages(ENTRY_POINT_STACK_SIZE) + 1
    /\ last_drop.guard = { "MEMORY_UC", "MEMORY_XP" }
\* the header in the buffer's memory is the private recipient (zeros if there
\* is none) and the private message length
HeaderMatchesPrivateState(self) ==
    /\ SubSeq(self.memory, 1, GuidSize) =
          (IF self.private_recipient = None THEN zero_guid
           ELSE CHOOSE g \in self.private_recipient : TRUE)
    /\ \A i \in 1 .. UsizeSize :
          self.memory[GuidSize + i] = (self.private_message_length \div (256 ^ (i - 1))) % 256

\* what holds of a buffer that can hold the header after every call, but for
\* the status of a set_message without recipient
CommBufferTracksCalls(self) ==
    /\ HeaderMatchesPrivateState(self)
    /\ get_message(self) = [ status |-> COMM_OK, message |-> last_comm.sent ]
    /\ last_comm.op = "get_message" => last_comm.got = last_comm.sent
    /\ last_comm.status # COMM_OK => self = last_comm.before
    /\ (last_comm.op = "set_message" /\ last_comm.status = COMM_OK)
          => get_message(self).message = last_comm.message
    /\ last_comm.op = "set_message_info" =>
          /\ last_comm.status = COMM_OK
          /\ self.private_recipient = Some(last_comm.recipient)
          /\ self.private_message_length = last_comm.before.private_message_length
          /\ get_message(self).message = get_message(last_comm.before).message
    /\ (last_comm.op = "set_message" /\ last_comm.before.private_recipient = None)
          => last_comm.status # COMM_OK

\* C40 (as stated): for a buffer that can hold the header, after every
\* set_message_info, set_message and reset call the header in memory matches
\* the private recipient and message length, get_message returns the bytes of
\* the last successful set_message, a set_message_info changes the recipient
\* and keeps the message and its length, and a set_message with no recipient
\* set fails with InvalidRecipient and leaves the buffer unchanged.
C40_SetMessageWithoutRecipientIsInvalidRecipient ==
    \A self \in comm_buffer :
        Len(self.memory) >= MESSAGE_START_OFFSET =>
            /\ CommBufferTracksCalls(self)
            /\ (last_comm.op = "set_message" /\ last_comm.before.private_recipient = None)
                  => last_comm.status = INVALID_RECIPIENT

\* C40 (amended): the same, but a set_message with no recipient set fails
\* with InvalidRecipient only if the message fits the buffer; a message
\* longer than the buffer's message capacity fails with TooSmallForMessage,
\* with or without a recipient.
C40_SetMessageChecksCapacityFirst ==
    \A self \in comm_buffer :
        Len(self.memory) >= MESSAGE_START_OFFSET =>
            /\ CommBufferTracksCalls(self)
            /\ last_comm.op = "set_message" =>
                  last_comm.status =
                     IF Len(last_comm.message) > Len(self.memory) - MESSAGE_START_OFFSET
                         THEN TOO_SMALL_FOR_MESSAGE
                     ELSE IF last_comm.before.private_recipient = None THEN INVALID_RECIPIENT
                     ELSE COMM_OK

\* a message was set, and then a set_message_info gave the buffer another
\* recipient: the message and its length are still there
C40_Witness ==
    \E self \in comm_buffer :
        /\ last_comm.op = "set_message_info" /\ last_comm.status = COMM_OK
        /\ last_comm.before.private_recipient \notin { None, Some(last_comm.recipient) }
        /\ Len(last_comm.sent) = MaxMessage /\ 255 \in { last_comm.sent[i] : i \in 1 .. MaxMessage }
        /\ get_message(self).message = last_comm.sent

\* a set_message with no recipient set and a message that fits
C40_InvalidRecipientWitness ==
    \E self \in comm_buffer :
        /\ last_comm.op = "set_message" /\ last_comm.status = INVALID_RECIPIENT
        /\ last_comm.message # << >> /\ self = last_comm.before
====
